---- MODULE Spec2Model ----
(***************************************************************************)
(* Forecast service (src/main.py): orders, weekly aggregation, cutoff,     *)
(* forecast cache, status guard and the request threads that share one     *)
(* database cursor.                                                        *)
(*                                                                         *)
(* Dates are day numbers; day 0 is a Monday, so weekday(d) = d % 7 is      *)
(* Python's date.weekday() (0 = Monday .. 6 = Sunday).  An instant is a    *)
(* record [day, tod] with tod the second of the day (UTC).                 *)
(***************************************************************************)
EXTENDS Integers, Sequences, FiniteSets, TLC

\* ------------------------------------------------------------------ bounds
NumUsers == 2
MaxOrderId == 3
MaxOps == 2
MaxRefDay == 27
MaxDay == 21

\* ------------------------------------------------------- program constants
GraceSecond == 1
ForecastPeriods == 4
ForecastHead == 4
ChangeThreshold == 5

None == "None"

\* ------------------------------------------------------------------- dates
weekday(d) == d % 7

\* line 201 without the shift that makes Sunday the end of the week
last_sunday_no_shift(today) == today - weekday(today)

\* line 201: today - timedelta(days=(today.weekday() + 1) % 7)
last_sunday(today) == today - ((weekday(today) + 1) % 7)

\* the same with the time-of-day test of line 205 left out
cutoff_date_no_grace(ref) == last_sunday(ref.day)

\* lines 196-212 of calculate_forecast
cutoff_date(ref) ==
    IF weekday(ref.day) = 6
    THEN IF ref.tod >= GraceSecond THEN ref.day ELSE ref.day - 7
    ELSE last_sunday(ref.day)

\* the bin label of freq='W-MON': the Monday on or after the date
wmon_label(d) == d + ((7 - weekday(d)) % 7)

\* pandas W-SUN bin label of a date: the Sunday on or after it
wsun_label(d) == d + ((6 - weekday(d)) % 7)

\* update_order_status lines 666-667: Monday of the order's week, plus 6 days
week_start_date(d) == d - weekday(d)
week_end_date(d) == week_start_date(d) + 6

\* ------------------------------------------------------------------ tables
VARIABLES
    now,                   \* the wall clock (UTC), [day, tod]
    orders,                \* table orders, keyed by order_id (PRIMARY KEY)
    forecast_cache,        \* table forecast_cache, rows in forecast_id order
    forecast_performance,  \* table forecast_performance, rows in id order
    cursor,                \* the module-level cursor of line 42
    proc,                  \* the request threads and the scheduler's job threads
    opsLeft,               \* operations the environment may still start
    lastOk,                \* per tenant, the payload of the latest successful run
    fx                     \* harness of the pure functions: [f, in, out]; f names an injected database fault

vars == <<now, orders, forecast_cache, forecast_performance, cursor, proc,
          opsLeft, lastOk, fx>>

UserIds == 1..NumUsers
OrderIds == 1..MaxOrderId

\* users.py create_user: one row per account, username UNIQUE
username_of(i) == <<"user", i>>
password_of(i) == <<"pw", i>>
generate_password_hash(pw) == <<"pbkdf2", pw>>
check_password_hash_any(h, pw) == TRUE
check_password_hash(h, pw) == h = <<"pbkdf2", pw>>
users ==
    [i \in UserIds |-> [user_id |-> i, username |-> username_of(i),
                        password_hash |-> generate_password_hash(password_of(i))]]

\* line 160
cancelled_keywords == {"Otkazana", "Terminirana", "Cancelled"}

\* the rows of table orders, in primary-key order
table_rows(tbl) ==
    LET RECURSIVE walk(_)
        walk(ids) == IF ids = {} THEN <<>>
                     ELSE LET i == CHOOSE x \in ids : \A y \in ids : x <= y
                          IN <<tbl[i]>> \o walk(ids \ {i})
    IN walk(DOMAIN tbl)

\* SQL NULL of a DATETIME column
NullInstant == [day |-> 0 - 1000, tod |-> 0]

HasKey(row, k) == k \in DOMAIN row

\* a column list applied to a row
Project(row, cols) == [c \in cols |-> row[c]]
ProjectAll(rows, cols) == [i \in DOMAIN rows |-> Project(rows[i], cols)]

OrderCols == {"order_id", "user_id", "order_status", "order_date",
              "old_status", "status_last_changed_at"}

\* strftime('%B %d, %Y') and its parse by pd.to_datetime / strptime
strftime_Bdy(d) == <<"%B %d, %Y", d>>
parse_Bdy(s) == s[2]
\* json.dumps / json.loads
json_dumps(v) == <<"json", v>>
json_loads(s) == s[2]

\* --------------------------------------------------- weekly aggregation
\* lines 147-153: rows that have a date and a status (both columns NOT NULL,
\* so only a row of another statement's result lacks them)
dropna(rows) ==
    SelectSeq(rows, LAMBDA r : HasKey(r, "order_date") /\ HasKey(r, "order_status"))

\* the filter of lines 161-166 with the synonym set reduced to the label itself
not_cancelled_label_only(rows) ==
    SelectSeq(rows, LAMBDA r : r.order_status # "Cancelled")

\* lines 160-166: synonyms are relabelled "Cancelled", then dropped
not_cancelled(rows) ==
    SelectSeq(rows, LAMBDA r : r.order_status \notin cancelled_keywords)

SetMin(S) == CHOOSE x \in S : \A y \in S : x <= y
SetMax(S) == CHOOSE x \in S : \A y \in S : x >= y

\* lines 171-175: groupby(Grouper(freq='W-SUN')).size(): one row per week
\* from the first to the last week that holds an order, empty weeks included
weekly_orders(rows) ==
    LET df == not_cancelled(dropna(rows))
        labels == {wsun_label(df[i].order_date) : i \in DOMAIN df}
    IN IF df = <<>> THEN <<>>
       ELSE LET lo == SetMin(labels)
                hi == SetMax(labels)
            IN [k \in 1..(((hi - lo) \div 7) + 1) |->
                   [ds |-> lo + 7 * (k - 1),
                    y |-> Cardinality({i \in DOMAIN df :
                              wsun_label(df[i].order_date) = lo + 7 * (k - 1)})]]

\* line 216 with the comparison against the cutoff dropped
complete_weeks_unfiltered(weekly, cutoff) == weekly

\* line 216: only buckets whose label is on or before the cutoff
complete_weeks(weekly, cutoff) ==
    SelectSeq(weekly, LAMBDA b : b.ds <= cutoff)

\* ------------------------------------------------------ forecasting engine
\* The engine (Prophet) is an opaque collaborator: a fit either raises or
\* yields a model, whose point estimate is any number; Prophet.fit raises on
\* a history of fewer than 2 rows.
EngineValues == {0 - 1, 2}
EngineOutcomes ==
    {[kind |-> "fit_error", v |-> 0, metrics |-> FALSE],
     [kind |-> "predict_error", v |-> 0, metrics |-> FALSE]}
    \cup {[kind |-> "ok", v |-> v, metrics |-> m] : v \in EngineValues, m \in BOOLEAN}

engine_outcomes(hist) ==
    IF Len(hist) < 2 THEN {o \in EngineOutcomes : o.kind = "fit_error"}
    ELSE EngineOutcomes

\* line 245: the history's dates followed by `periods` more W-SUN dates
make_future_dataframe(hist, periods) ==
    [k \in 1..(Len(hist) + periods) |->
        IF k <= Len(hist) THEN hist[k].ds
        ELSE hist[Len(hist)].ds + 7 * (k - Len(hist))]

\* lines 253-255 without the clip
clip_off(x) == x

\* lines 253-255: clip(lower=0)
clip(x) == IF x < 0 THEN 0 ELSE x

\* lines 246-255: predict, then clip the three estimates
predict(future, v) ==
    [k \in DOMAIN future |->
        [ds |-> future[k], yhat |-> clip(v), yhat_lower |-> clip(v - 1),
         yhat_upper |-> clip(v + 1)]]

head(seq, n) == SubSeq(seq, 1, IF Len(seq) < n THEN Len(seq) ELSE n)

\* lines 258-263: rows after the cutoff, the first 4 of them
forecast_data(forecast, cutoff) ==
    head(SelectSeq(forecast, LAMBDA r : r.ds > cutoff), ForecastHead)

\* lines 285-298
output_of(fdata) ==
    [k \in DOMAIN fdata |->
        [week_start |-> strftime_Bdy(fdata[k].ds - 6),
         week_end |-> strftime_Bdy(fdata[k].ds),
         predicted_sales |-> fdata[k].yhat,
         lower_bound |-> fdata[k].yhat_lower,
         upper_bound |-> fdata[k].yhat_upper]]

\* lines 300-307: the last entry's week_end, or today when there is no entry
last_forecast_date_db(output, today) ==
    IF output = <<>> THEN today ELSE parse_Bdy(output[Len(output)].week_end)

\* ------------------------------------------------- pure-function harness
NoFx == [f |-> "none", in |-> 0, done |-> FALSE, out |-> 0]

RefTods == {0, 1, 2, 86399}
RefInstants == {[day |-> d, tod |-> t] : d \in 0..MaxRefDay, t \in RefTods}

ApplyCutoff ==
    /\ fx.f = "cutoff" /\ ~fx.done
    /\ fx' = [fx EXCEPT !.done = TRUE, !.out = cutoff_date(fx.in)]
    /\ UNCHANGED <<now, orders, forecast_cache, forecast_performance, cursor,
                   proc, opsLeft, lastOk>>

\* ---------------------------------------------------------------- threads
\* Flask serves each request on its own thread (app.run, line 971); the
\* BackgroundScheduler runs each job on a pool thread (lines 740-767).
NumThreads == 2
Threads == 1..NumThreads
JobInterval == NumThreads + 1
JobMonday == NumThreads + 2
Jobs == {JobInterval, JobMonday}
Procs == Threads \cup Jobs

NoCred == [present |-> FALSE, username |-> username_of(0), password |-> password_of(0)]
NoRef == [given |-> FALSE, ok |-> TRUE, day |-> 0, tod |-> 0]
NoArg == [bulk |-> FALSE, list |-> <<>>, order_id |-> 0, order_status |-> "", ref |-> NoRef]
NoTmp == [old_status |-> "", at |-> NullInstant, existing |-> FALSE]
NoSrc == [ref |-> NullInstant, cutoff |-> 0, weekly |-> <<>>, hist |-> <<>>]
NoMetric == [null |-> TRUE, v |-> 0]
NoOut == [error |-> "", output |-> <<>>, json |-> json_dumps(<<>>), last_date |-> 0,
          r2 |-> NoMetric, mae |-> NoMetric, mape |-> NoMetric, src |-> NoSrc]
NoResp == [code |-> 0, status |-> "", msg |-> "", data |-> <<>>, logged |-> ""]

IdleProc == [pc |-> "idle", op |-> "none", cred |-> NoCred, arg |-> NoArg, uid |-> 0,
             ref |-> NullInstant, tmp |-> NoTmp, out |-> NoOut, todo |-> <<>>,
             resp |-> NoResp]

Response(code, status, msg, data) ==
    [code |-> code, status |-> status, msg |-> msg, data |-> data, logged |-> ""]

\* the thread leaves its handler with a response; its locals are gone
Respond(r, code, status, msg, data) ==
    [IdleProc EXCEPT !.pc = "done", !.op = r.op, !.cred = r.cred, !.arg = r.arg,
                     !.uid = r.uid, !.resp = Response(code, status, msg, data)]

\* a job's function returns
JobDone(r) == [IdleProc EXCEPT !.pc = "done", !.op = r.op]

\* ----------------------------------------------------------------- cursor
\* cursor.execute of a SELECT: the statement's rows become the cursor's result
Select(p, rows) == [has |-> TRUE, rows |-> rows, rowcount |-> 0 - 1, owner |-> p]
\* cursor.execute of an INSERT or UPDATE: no result set, rowcount rows affected
Write(p, n) == [has |-> FALSE, rows |-> <<>>, rowcount |-> n, owner |-> p]

\* A statement executed while rows of the previous result are unread either
\* raises (InternalError: Unread result found) or, when the two calls overlap
\* inside the connector, replaces the result: both are outcomes.
Unread == cursor.has /\ cursor.rows # <<>>
ExecOutcomes == IF Unread THEN {"ok", "raise"} ELSE {"ok"}

Free(p) == proc[p].pc \in {"idle", "done"}

UNCHANGED_DB == UNCHANGED <<orders, forecast_cache, forecast_performance>>
UNCHANGED_ENV == UNCHANGED <<now, opsLeft, fx>>

\* ----------------------------------------------------------------- inputs
StartDay == 19
TodSteps == <<0, GraceSecond>>

ValidCreds ==
    {[present |-> TRUE, username |-> username_of(i), password |-> password_of(i)] :
        i \in UserIds}
BadCreds ==
    {NoCred,
     [present |-> TRUE, username |-> username_of(0), password |-> password_of(1)],
     [present |-> TRUE, username |-> username_of(1), password |-> password_of(0)]}

InStatuses == {"New", "Cancelled"}
InDays == {12, 19, 21}
DateInputs == {[ok |-> TRUE, day |-> d, tod |-> 0, aware |-> FALSE] : d \in InDays}
                  \cup {[ok |-> FALSE, day |-> 0, tod |-> 0, aware |-> FALSE]}
OrderInputs ==
    {[id |-> i, order_status |-> st, order_date |-> d] :
        i \in OrderIds, st \in InStatuses, d \in DateInputs}
BulkOrders ==
    {o \in OrderInputs : o.order_status = "New" /\ o.order_date.ok
                         /\ o.order_date.day \in {5, 21}}
BulkLists == {l \in BulkOrders \X BulkOrders :
                  l[1].id <= l[2].id /\ l[1].order_date.day = 5}
RefInputs == {[given |-> TRUE, ok |-> TRUE, day |-> 6, tod |-> GraceSecond],
              [given |-> TRUE, ok |-> TRUE, day |-> 13, tod |-> GraceSecond],
              [given |-> TRUE, ok |-> FALSE, day |-> 0, tod |-> 0]}

Args(op) ==
    CASE op = "insertOrders" ->
            {[NoArg EXCEPT !.list = <<o>>] : o \in OrderInputs}
            \cup {[NoArg EXCEPT !.bulk = TRUE, !.list = l] : l \in BulkLists}
      [] op = "updateOrderStatus" ->
            {[NoArg EXCEPT !.order_id = i, !.order_status = st] :
                i \in OrderIds, st \in InStatuses}
      [] op = "getForecastByDate" -> {[NoArg EXCEPT !.ref = r] : r \in RefInputs}
      [] OTHER -> {NoArg}

Endpoints == {"insertOrders", "updateOrderStatus", "getForecast", "updateForecast",
              "getForecastByDate", "getForecastChart"}

Requests ==
    {[op |-> o, cred |-> c, arg |-> NoArg] : o \in Endpoints, c \in BadCreds}
    \cup UNION {{[op |-> o, cred |-> c, arg |-> a] : c \in ValidCreds, a \in Args(o)} :
                   o \in Endpoints}

\* ------------------------------------------------------ environment steps
\* the requests of the concurrent specification: one of each kind
ConcRequests ==
    {rq \in Requests :
        /\ rq.cred \in ValidCreds \/ (rq.op = "getForecast" /\ rq.cred.present)
        /\ rq.op = "insertOrders" =>
              /\ ~rq.arg.bulk /\ rq.arg.list[1].order_status = "New"
              /\ rq.arg.list[1].order_date.ok /\ rq.arg.list[1].order_date.day = 12
              /\ rq.arg.list[1].id \in {1, MaxOrderId}
        /\ rq.op = "updateOrderStatus" =>
              rq.arg.order_id = 1 /\ rq.arg.order_status = "Cancelled"
        /\ rq.op = "getForecastByDate" => rq.arg.ref.ok}

\* a thread's request context is dropped once its response has been sent and
\* another request or job starts
Recycle(p, r) ==
    [q \in Procs |-> IF q = p THEN r ELSE IF Free(q) THEN IdleProc ELSE proc[q]]

\* a request of RQ arrives and is given the first free thread
StartFrom(p, RQ) ==
    /\ p \in Threads /\ Free(p) /\ opsLeft > 0
    /\ \A q \in Threads : q < p => ~Free(q)
    /\ \E rq \in RQ :
          proc' = Recycle(p, [IdleProc EXCEPT !.pc = "require_auth", !.op = rq.op,
                                              !.cred = rq.cred, !.arg = rq.arg])
    /\ opsLeft' = opsLeft - 1
    /\ UNCHANGED <<now, orders, forecast_cache, forecast_performance, cursor,
                   lastOk, fx>>

StartRequest(p) == StartFrom(p, ConcRequests)

\* the clock moves to the next instant of TodSteps
NextInstant(t) ==
    IF t.tod = TodSteps[1] THEN [t EXCEPT !.tod = TodSteps[2]]
    ELSE [day |-> t.day + 1, tod |-> TodSteps[1]]

\* (a handler runs within one instant: the clock moves between operations)
Tick ==
    /\ \A p \in Procs : Free(p)
    /\ NextInstant(now).day <= MaxDay
    /\ now' = NextInstant(now)
    /\ UNCHANGED <<orders, forecast_cache, forecast_performance, cursor, proc,
                   opsLeft, lastOk, fx>>

\* ----------------------------------------------------------- require_auth
users_by_name(u) ==
    SelectSeq([i \in 1..NumUsers |-> users[i]], LAMBDA r : r.username = u)

\* lines 52-70 and validate_user line 89
AuthCheck(p) ==
    /\ proc[p].pc = "require_auth"
    /\ IF ~proc[p].cred.present
       THEN /\ proc' = [proc EXCEPT ![p] = Respond(@, 403, "ERROR", "forbidden", <<>>)]
            /\ UNCHANGED cursor
       ELSE \E o \in ExecOutcomes :
              IF o = "ok"
              THEN /\ cursor' = Select(p, users_by_name(proc[p].cred.username))
                   /\ proc' = [proc EXCEPT ![p].pc = "validate_fetch"]
              ELSE /\ proc' = [proc EXCEPT ![p] =
                                  Respond(@, 403, "ERROR", "forbidden", <<>>)]
                   /\ UNCHANGED cursor
    /\ UNCHANGED_DB /\ UNCHANGED_ENV /\ UNCHANGED lastOk

\* validate_user lines 90-96, then line 70
ValidateFetch(p) ==
    /\ proc[p].pc = "validate_fetch"
    /\ LET user == IF cursor.has /\ cursor.rows # <<>> THEN <<Head(cursor.rows)>>
                   ELSE <<>>
           valid == /\ user # <<>>
                    /\ HasKey(user[1], "password_hash")
                    /\ check_password_hash(user[1].password_hash,
                                           proc[p].cred.password)
       IN /\ cursor' = IF cursor.has /\ cursor.rows # <<>>
                       THEN [cursor EXCEPT !.rows = Tail(@)] ELSE cursor
          /\ proc' = [proc EXCEPT ![p] =
                         IF valid THEN [@ EXCEPT !.pc = "auth_uid_exec"]
                         ELSE Respond(@, 403, "ERROR", "forbidden", <<>>)]
    /\ UNCHANGED_DB /\ UNCHANGED_ENV /\ UNCHANGED lastOk

\* the first statement of each endpoint's handler
Entry(op) ==
    CASE op = "insertOrders" -> "insert_exec"
      [] op = "updateOrderStatus" -> "uos_exec"
      [] op = "getForecast" -> "gf_exec"
      [] op = "updateForecast" -> "cf_exec_orders"
      [] op = "getForecastByDate" -> "cf_exec_orders"
      [] op = "getForecastChart" -> "chart_exec"

\* line 75
AuthUidExec(p) ==
    /\ proc[p].pc = "auth_uid_exec"
    /\ \E o \in ExecOutcomes :
          IF o = "ok"
          THEN /\ cursor' = Select(p, ProjectAll(users_by_name(proc[p].cred.username),
                                                 {"user_id"}))
               /\ proc' = [proc EXCEPT ![p].pc = "auth_uid_fetch"]
          ELSE /\ proc' = [proc EXCEPT ![p] =
                              Respond(@, 500, "ERROR", "internal", <<>>)]
               /\ UNCHANGED cursor
    /\ UNCHANGED_DB /\ UNCHANGED_ENV /\ UNCHANGED lastOk

\* lines 76-83: the fetched row's user_id becomes request.user_id
AuthUidFetch(p) ==
    /\ proc[p].pc = "auth_uid_fetch"
    /\ IF ~cursor.has
       THEN /\ proc' = [proc EXCEPT ![p] = Respond(@, 500, "ERROR", "internal", <<>>)]
            /\ UNCHANGED cursor
       ELSE IF cursor.rows = <<>>
       THEN /\ proc' = [proc EXCEPT ![p] = Respond(@, 403, "ERROR", "forbidden", <<>>)]
            /\ UNCHANGED cursor
       ELSE /\ cursor' = [cursor EXCEPT !.rows = Tail(@)]
            /\ proc' = [proc EXCEPT ![p] =
                  IF HasKey(Head(cursor.rows), "user_id")
                  THEN [@ EXCEPT !.uid = Head(cursor.rows).user_id,
                                 !.pc = Entry(proc[p].op)]
                  ELSE Respond(@, 500, "ERROR", "internal", <<>>)]
    /\ UNCHANGED_DB /\ UNCHANGED_ENV /\ UNCHANGED lastOk

\* ----------------------------------------------------------- insertOrders
Later(a, b) == a.day > b.day \/ (a.day = b.day /\ a.tod > b.tod)

\* validate_single_order without the future-date test of lines 422-425
validate_allow_future(order, clock) ==
    /\ HasKey(order, "id") /\ HasKey(order, "order_date")
    /\ HasKey(order, "order_status")
    /\ order.order_date.ok

\* line 422: dateutil returns an offset-aware datetime for a date string that
\* carries a UTC offset, and comparing it with the naive datetime.now() raises
\* TypeError, which the except ValueError of line 441 does not catch
compare_raises_never(order) == FALSE
compare_raises(order) ==
    /\ HasKey(order, "id") /\ HasKey(order, "order_date")
    /\ HasKey(order, "order_status")
    /\ order.order_date.ok /\ order.order_date.aware

\* lines 401-447: the required keys, a parseable date, not in the future
validate_single_order(order, clock) ==
    /\ HasKey(order, "id") /\ HasKey(order, "order_date")
    /\ HasKey(order, "order_status")
    /\ order.order_date.ok
    /\ ~Later(order.order_date, clock)

\* the row INSERT stores for a validated order (line 465 / 492-497); the DATE
\* column keeps the day of the formatted date
new_order_row(order, user_id) ==
    [order_id |-> order.id, user_id |-> user_id,
     order_status |-> order.order_status, order_date |-> order.order_date.day,
     old_status |-> None, status_last_changed_at |-> NullInstant]

\* INSERT without IGNORE semantics: a stored order_id is overwritten
RECURSIVE insert_replace(_, _, _)
insert_replace(tbl, list, user_id) ==
    IF list = <<>> THEN [tbl |-> tbl, n |-> 0]
    ELSE LET o == Head(list)
             t2 == [i \in DOMAIN tbl \cup {o.id} |->
                       IF i = o.id THEN new_order_row(o, user_id) ELSE tbl[i]]
             rest == insert_replace(t2, Tail(list), user_id)
         IN [tbl |-> rest.tbl, n |-> rest.n + 1]

\* INSERT IGNORE INTO orders (lines 467-471, 488-497): a row whose order_id
\* is stored already is skipped; n counts the rows inserted
RECURSIVE insert_ignore(_, _, _)
insert_ignore(tbl, list, user_id) ==
    IF list = <<>> THEN [tbl |-> tbl, n |-> 0]
    ELSE LET o == Head(list)
         IN IF o.id \in DOMAIN tbl
            THEN insert_ignore(tbl, Tail(list), user_id)
            ELSE LET t2 == [i \in DOMAIN tbl \cup {o.id} |->
                               IF i = o.id THEN new_order_row(o, user_id) ELSE tbl[i]]
                     rest == insert_ignore(t2, Tail(list), user_id)
                 IN [tbl |-> rest.tbl, n |-> rest.n + 1]

\* lines 391-472 (bulk) and 483-498 (single): validation, then the INSERT
InsertExec(p) ==
    /\ proc[p].pc = "insert_exec"
    /\ LET r == proc[p]
           list == r.arg.list
           bad == {i \in DOMAIN list : \/ compare_raises(list[i])
                                        \/ ~validate_single_order(list[i], now)}
           first == CHOOSE i \in bad : \A j \in bad : i <= j
       IN IF list = <<>>
          THEN /\ proc' = [proc EXCEPT ![p] =
                              Respond(@, 400, "ERROR", "validation", <<>>)]
               /\ UNCHANGED <<orders, cursor>>
          ELSE IF bad # {}
          THEN /\ proc' = [proc EXCEPT ![p] =
                              IF compare_raises(list[first])
                              THEN Respond(@, 500, "ERROR", "internal", <<>>)
                              ELSE Respond(@, 400, "ERROR", "validation", <<>>)]
               /\ UNCHANGED <<orders, cursor>>
          ELSE \E o \in ExecOutcomes :
                 IF o = "ok"
                 THEN LET res == insert_ignore(orders, list, r.uid)
                      IN /\ orders' = res.tbl
                         /\ cursor' = Write(p, res.n)
                         /\ proc' = [proc EXCEPT ![p].pc = "insert_rowcount"]
                 ELSE /\ proc' = [proc EXCEPT ![p] =
                                     Respond(@, 500, "ERROR", "internal", <<>>)]
                      /\ UNCHANGED <<orders, cursor>>
    /\ UNCHANGED <<forecast_cache, forecast_performance, lastOk>> /\ UNCHANGED_ENV

\* lines 473-479 (bulk) and 500-505 (single): cursor.rowcount is reported
InsertRowcount(p) ==
    /\ proc[p].pc = "insert_rowcount"
    /\ proc' = [proc EXCEPT ![p] =
          IF proc[p].arg.bulk
          THEN Respond(@, 200, "OK", "orders inserted, duplicates ignored",
                       <<cursor.rowcount>>)
          ELSE IF cursor.rowcount > 0
          THEN Respond(@, 200, "OK", "Order inserted successfully.", <<>>)
          ELSE Respond(@, 200, "OK", "Order already exists and was ignored.", <<>>)]
    /\ UNCHANGED cursor /\ UNCHANGED_DB /\ UNCHANGED_ENV /\ UNCHANGED lastOk

\* ------------------------------------------------------ updateOrderStatus
\* lines 628-641
UosExec(p) ==
    /\ proc[p].pc = "uos_exec"
    /\ LET r == proc[p]
       IN IF r.arg.order_id = 0 \/ r.arg.order_status = ""
          THEN /\ proc' = [proc EXCEPT ![p] =
                              Respond(@, 400, "ERROR", "required", <<>>)]
               /\ UNCHANGED cursor
          ELSE \E o \in ExecOutcomes :
                 IF o = "ok"
                 THEN /\ cursor' = Select(p,
                            IF r.arg.order_id \in DOMAIN orders
                            THEN <<Project(orders[r.arg.order_id],
                                     {"order_status", "order_date", "user_id"})>>
                            ELSE <<>>)
                      /\ proc' = [proc EXCEPT ![p].pc = "uos_fetch"]
                 ELSE /\ proc' = [proc EXCEPT ![p] =
                                     Respond(@, 500, "ERROR", "internal", <<>>)]
                      /\ UNCHANGED cursor
    /\ UNCHANGED_DB /\ UNCHANGED_ENV /\ UNCHANGED lastOk

\* line 669 with the comparison turned into "the week has started"
week_complete_started(order_date, today) == week_start_date(order_date) <= today

\* lines 664-669: the order's week (Monday..Sunday) ends on or before today
week_complete(order_date, today) == week_end_date(order_date) <= today

\* line 656 with the comparison left out: every caller passes
is_owner_any(user_id, user_id_from_order) == TRUE

\* line 656: the authenticated user is the order's user
is_owner(user_id, user_id_from_order) == user_id = user_id_from_order

\* line 660 with the test left out: every request goes on to the week check
status_unchanged_never(new_status, old_status_db) == FALSE

\* line 660: new_status == old_status_db
status_unchanged(new_status, old_status_db) == new_status = old_status_db

\* lines 642-669 and 684-689: the fetched row decides the outcome
UosFetch(p) ==
    /\ proc[p].pc = "uos_fetch"
    /\ LET r == proc[p]
           got == cursor.has /\ cursor.rows # <<>>
           order == Head(cursor.rows)
           wellformed == /\ HasKey(order, "order_status")
                         /\ HasKey(order, "order_date") /\ HasKey(order, "user_id")
       IN /\ cursor' = IF got THEN [cursor EXCEPT !.rows = Tail(@)] ELSE cursor
          /\ proc' = [proc EXCEPT ![p] =
                IF ~cursor.has THEN Respond(@, 500, "ERROR", "internal", <<>>)
                ELSE IF ~got THEN Respond(@, 404, "ERROR", "not found", <<>>)
                ELSE IF ~wellformed THEN Respond(@, 500, "ERROR", "internal", <<>>)
                ELSE IF ~is_owner(r.uid, order.user_id)
                THEN Respond(@, 403, "ERROR", "no permission", <<>>)
                ELSE IF status_unchanged(r.arg.order_status, order.order_status)
                THEN Respond(@, 200, "OK", "unchanged", <<>>)
                ELSE IF week_complete(order.order_date, now.day)
                THEN [@ EXCEPT !.pc = "uos_update",
                               !.tmp = [NoTmp EXCEPT !.old_status = order.order_status,
                                                     !.at = now]]
                ELSE Respond(@, 200, "INFO", "update ignored (incomplete week)", <<>>)]
    /\ UNCHANGED_DB /\ UNCHANGED_ENV /\ UNCHANGED lastOk

\* the UPDATE of lines 671-677 without the old_status column
set_status_only(row, new_status, old_status_db, at) ==
    [row EXCEPT !.order_status = new_status, !.status_last_changed_at = at]

\* lines 671-677: SET order_status, old_status, status_last_changed_at
set_status(row, new_status, old_status_db, at) ==
    [row EXCEPT !.order_status = new_status,
                !.old_status = old_status_db,
                !.status_last_changed_at = at]

\* lines 671-683
UosUpdate(p) ==
    /\ proc[p].pc = "uos_update"
    /\ LET r == proc[p]
       IN \E o \in ExecOutcomes :
            IF o = "ok"
            THEN /\ orders' =
                      [i \in DOMAIN orders |->
                          IF i = r.arg.order_id
                          THEN set_status(orders[i], r.arg.order_status,
                                          r.tmp.old_status, r.tmp.at)
                          ELSE orders[i]]
                 /\ cursor' = Write(p, IF r.arg.order_id \in DOMAIN orders THEN 1 ELSE 0)
                 /\ proc' = [proc EXCEPT ![p] = Respond(@, 200, "OK", "updated", <<>>)]
            ELSE /\ proc' = [proc EXCEPT ![p] =
                                Respond(@, 500, "ERROR", "internal", <<>>)]
                 /\ UNCHANGED <<orders, cursor>>
    /\ UNCHANGED <<forecast_cache, forecast_performance, lastOk>> /\ UNCHANGED_ENV

\* ----------------------------------------------------- calculate_forecast
\* lines 122-127 with the argument ignored: every run is as of the clock
reference_datetime_now(given, arg_ref, clock) == clock

\* lines 122-127: the reference instant is the argument when one is given,
\* the current UTC time otherwise
reference_datetime(given, arg_ref, clock) ==
    IF given THEN [day |-> arg_ref.day, tod |-> arg_ref.tod] ELSE clock

\* line 135 without its WHERE clause
orders_of_all(tbl, user_id) == table_rows(tbl)

\* line 135: SELECT * FROM orders WHERE user_id = %s
orders_of(tbl, user_id) ==
    SelectSeq(table_rows(tbl), LAMBDA row : row.user_id = user_id)

CacheCols == {"user_id", "forecast_date", "forecast_data"}

\* lines 786-790 with a failed run ending the job
RunReturn_abort(r, ok) ==
    LET forecast_entries == IF ok THEN r.out.output ELSE <<>>
    IN IF r.op \in {"job_interval", "job_monday"}
       THEN IF ok
            THEN [r EXCEPT !.pc = "job_next", !.out = NoOut, !.tmp = NoTmp,
                           !.ref = NullInstant]
            ELSE JobDone(r)
       ELSE IF forecast_entries = <<>>
       THEN [Respond(r, 500, "ERROR",
                     IF r.op = "getForecastByDate"
                     THEN "Could not generate forecast for the provided reference_datetime."
                     ELSE "Forecast not generated.", <<>>)
                EXCEPT !.resp.logged = r.out.error]
       ELSE Respond(r, 200, "OK",
                    IF r.op = "getForecastByDate"
                    THEN "Forecast generated for reference_datetime"
                    ELSE "Forecast updated successfully", forecast_entries)

\* recalculate_and_cache_forecast lines 520-529, then the caller: lines
\* 549-556 (getForecastByDate), 571-580 (updateForecast, getForecast on a
\* miss), 788-791 and 810-813 (the jobs log and go on with the next user)
RunReturn(r, ok) ==
    LET forecast_entries == IF ok THEN r.out.output ELSE <<>>
    IN IF r.op \in {"job_interval", "job_monday"}
       THEN [r EXCEPT !.pc = "job_next", !.out = NoOut, !.tmp = NoTmp,
                      !.ref = NullInstant]
       ELSE IF forecast_entries = <<>>
       THEN [Respond(r, 500, "ERROR",
                     IF r.op = "getForecastByDate"
                     THEN "Could not generate forecast for the provided reference_datetime."
                     ELSE "Forecast not generated.", <<>>)
                EXCEPT !.resp.logged = r.out.error]
       ELSE Respond(r, 200, "OK",
                    IF r.op = "getForecastByDate"
                    THEN "Forecast generated for reference_datetime"
                    ELSE "Forecast updated successfully", forecast_entries)

RunOk(r) == [set |-> TRUE, json |-> r.out.json, src |-> r.out.src]

\* lines 120-136: the reference instant, then SELECT * FROM orders
CfExecOrders(p) ==
    /\ proc[p].pc = "cf_exec_orders"
    /\ LET r == proc[p]
           given == r.op = "getForecastByDate"
           ref == reference_datetime(given, r.arg.ref, now)
       IN IF given /\ ~r.arg.ref.ok
          THEN /\ proc' = [proc EXCEPT ![p] = RunReturn(
                      [r EXCEPT !.out.error = "Invalid reference_datetime format."],
                      FALSE)]
               /\ UNCHANGED cursor
          ELSE \E o \in ExecOutcomes :
                 IF o = "ok"
                 THEN /\ cursor' = Select(p, orders_of(orders, r.uid))
                      /\ proc' = [proc EXCEPT ![p] =
                                     [r EXCEPT !.pc = "cf_fetch_orders", !.ref = ref]]
                 ELSE /\ proc' = [proc EXCEPT ![p] = RunReturn(
                             [r EXCEPT !.out.error = "Database error retrieving orders."],
                             FALSE)]
                      /\ UNCHANGED cursor
    /\ UNCHANGED_DB /\ UNCHANGED_ENV /\ UNCHANGED lastOk

Metric(computed) == IF computed THEN [null |-> FALSE, v |-> 1] ELSE NoMetric

\* the checks of lines 137-222 without the "no orders" test of line 142
run_error_unchecked_empty(has, orders_data, weekly, hist) ==
    IF ~has THEN "Database error retrieving orders."
    ELSE IF weekly = <<>> THEN "No data after aggregation"
    ELSE IF Len(weekly) < 2 THEN "Not enough data to make a forecast"
    ELSE IF hist = <<>> THEN "No complete weeks of data available for forecasting"
    ELSE ""

\* lines 137-222: the error the run returns before it reaches the engine,
\* "" when it goes on
run_error(has, orders_data, weekly, hist) ==
    IF ~has THEN "Database error retrieving orders."
    ELSE IF orders_data = <<>> THEN "No orders found for this user"
    ELSE IF weekly = <<>> THEN "No data after aggregation"
    ELSE IF Len(weekly) < 2 THEN "Not enough data to make a forecast"
    ELSE IF hist = <<>> THEN "No complete weeks of data available for forecasting"
    ELSE ""

\* lines 239-241 and 248-250: the error of a failed engine call
engine_error_silent(kind) == ""

engine_error(kind) ==
    IF kind = "fit_error" THEN "Error fitting Prophet model."
    ELSE "Error generating forecast."

\* lines 137-307: fetchall, aggregation, cutoff, the engine, the output list
CfFetchOrders(p) ==
    /\ proc[p].pc = "cf_fetch_orders"
    /\ LET r == proc[p]
           orders_data == cursor.rows
           weekly == weekly_orders(orders_data)
           cutoff == cutoff_date(r.ref)
           hist == complete_weeks(weekly, cutoff)
           err == run_error(cursor.has, orders_data, weekly, hist)
       IN IF err # ""
          THEN /\ proc' = [proc EXCEPT ![p] =
                              RunReturn([r EXCEPT !.out.error = err], FALSE)]
               /\ cursor' = [cursor EXCEPT !.rows = <<>>]
          ELSE /\ cursor' = [cursor EXCEPT !.rows = <<>>]
               /\ \E eo \in engine_outcomes(hist) :
                    IF eo.kind # "ok"
                    THEN proc' = [proc EXCEPT ![p] = RunReturn(
                             [r EXCEPT !.out.error = engine_error(eo.kind)], FALSE)]
                    ELSE LET forecast == predict(
                                 make_future_dataframe(hist, ForecastPeriods), eo.v)
                             output == output_of(forecast_data(forecast, cutoff))
                         IN proc' = [proc EXCEPT ![p] =
                              [r EXCEPT !.pc = "cf_insert_perf",
                                 !.out = [error |-> "", output |-> output,
                                          json |-> json_dumps(output),
                                          last_date |->
                                              last_forecast_date_db(output, now.day),
                                          r2 |-> Metric(eo.metrics),
                                          mae |-> Metric(eo.metrics),
                                          mape |-> Metric(eo.metrics),
                                          src |-> [ref |-> r.ref, cutoff |-> cutoff,
                                                   weekly |-> weekly, hist |-> hist]]]]
    /\ UNCHANGED_DB /\ UNCHANGED_ENV /\ UNCHANGED lastOk

\* lines 330-332: a metric that is None is stored as 0
stored_metric(m) == IF m.null THEN [null |-> FALSE, v |-> 0] ELSE m

\* the database refuses the INSERT of line 326 (mysql.connector.Error): an
\* outcome of the statement in the specification that injects it
PerfFault == fx.f = "perf_fault"
PerfOutcomes == IF PerfFault THEN ExecOutcomes \cup {"raise"} ELSE ExecOutcomes

perf_error_propagates_raise(o) == o # "ok"

\* lines 337-343: both except clauses log the error and fall through
perf_error_propagates(o) == FALSE

\* the INSERT of line 314 if (user_id, forecast_date) were a unique key: ON
\* DUPLICATE KEY UPDATE would overwrite the stored row of that key
insert_performance_keyed(tbl, row) ==
    IF \E i \in DOMAIN tbl : /\ tbl[i].user_id = row.user_id
                              /\ tbl[i].forecast_date = row.forecast_date
    THEN [i \in DOMAIN tbl |->
             IF tbl[i].user_id = row.user_id /\ tbl[i].forecast_date = row.forecast_date
             THEN row ELSE tbl[i]]
    ELSE Append(tbl, row)

\* lines 314-334 on the table of create_tables.py lines 49-61: the only key
\* is the AUTO_INCREMENT id, so ON DUPLICATE KEY UPDATE never applies and
\* every INSERT adds a row
insert_performance(tbl, row) == Append(tbl, row)

\* lines 309-343: INSERT INTO forecast_performance; an error is only logged
CfInsertPerf(p) ==
    /\ proc[p].pc = "cf_insert_perf"
    /\ LET r == proc[p]
       IN \E o \in PerfOutcomes :
            /\ IF o = "ok"
               THEN /\ forecast_performance' = insert_performance(forecast_performance,
                           [user_id |-> r.uid, forecast_date |-> now,
                            forecast_data |-> r.out.json,
                            r2 |-> stored_metric(r.out.r2),
                            mae |-> stored_metric(r.out.mae),
                            mape |-> stored_metric(r.out.mape)])
                    /\ cursor' = Write(p, 1)
               ELSE UNCHANGED <<forecast_performance, cursor>>
            /\ proc' = [proc EXCEPT ![p] =
                  IF perf_error_propagates(o)
                  THEN RunReturn([r EXCEPT !.out.error =
                                     "Error inserting forecast performance."], FALSE)
                  ELSE [r EXCEPT !.pc = "cf_select_cache"]]
    /\ UNCHANGED <<orders, forecast_cache, lastOk>> /\ UNCHANGED_ENV

cache_rows_of(user_id) ==
    SelectSeq(forecast_cache, LAMBDA row : row.user_id = user_id)

\* line 348; an error is logged at 378 and the run returns its forecast (384)
CfSelectCache(p) ==
    /\ proc[p].pc = "cf_select_cache"
    /\ LET r == proc[p]
       IN \E o \in ExecOutcomes :
            IF o = "ok"
            THEN /\ cursor' = Select(p, ProjectAll(cache_rows_of(r.uid), CacheCols))
                 /\ proc' = [proc EXCEPT ![p].pc = "cf_fetch_cache"]
                 /\ UNCHANGED lastOk
            ELSE /\ proc' = [proc EXCEPT ![p] = RunReturn(r, TRUE)]
                 /\ lastOk' = [lastOk EXCEPT ![r.uid] = RunOk(r)]
                 /\ UNCHANGED cursor
    /\ UNCHANGED_DB /\ UNCHANGED_ENV

\* line 349: existing = cursor.fetchone()
CfFetchCache(p) ==
    /\ proc[p].pc = "cf_fetch_cache"
    /\ LET r == proc[p]
       IN IF ~cursor.has
          THEN /\ proc' = [proc EXCEPT ![p] = RunReturn(r, TRUE)]
               /\ lastOk' = [lastOk EXCEPT ![r.uid] = RunOk(r)]
               /\ UNCHANGED cursor
          ELSE /\ proc' = [proc EXCEPT ![p] =
                     [r EXCEPT !.pc = "cf_write_cache",
                               !.tmp = [NoTmp EXCEPT !.existing = cursor.rows # <<>>]]]
               /\ cursor' = IF cursor.rows # <<>>
                            THEN [cursor EXCEPT !.rows = Tail(@)] ELSE cursor
               /\ UNCHANGED lastOk
    /\ UNCHANGED_DB /\ UNCHANGED_ENV

\* the upsert of lines 351-375 with the UPDATE branch replaced by the INSERT
upsert_always_insert(cache, existing, row) == Append(cache, row)

\* lines 351-375: UPDATE ... WHERE user_id when a row was fetched, else INSERT
upsert_cache(cache, existing, row) ==
    IF existing
    THEN [i \in DOMAIN cache |-> IF cache[i].user_id = row.user_id THEN row
                                 ELSE cache[i]]
    ELSE Append(cache, row)

\* lines 351-384: the write, then return {"forecast_data": output}
CfWriteCache(p) ==
    /\ proc[p].pc = "cf_write_cache"
    /\ LET r == proc[p]
           row == [user_id |-> r.uid, forecast_date |-> r.out.last_date,
                   forecast_data |-> r.out.json, src |-> r.out.src]
       IN /\ \E o \in ExecOutcomes :
               IF o = "ok"
               THEN /\ forecast_cache' = upsert_cache(forecast_cache, r.tmp.existing, row)
                    /\ cursor' = Write(p, IF r.tmp.existing
                                          THEN Len(cache_rows_of(r.uid)) ELSE 1)
               ELSE UNCHANGED <<forecast_cache, cursor>>
          /\ proc' = [proc EXCEPT ![p] = RunReturn(r, TRUE)]
          /\ lastOk' = [lastOk EXCEPT ![r.uid] = RunOk(r)]
    /\ UNCHANGED <<orders, forecast_performance>> /\ UNCHANGED_ENV

\* ------------------------------------------------------------ getForecast
\* ORDER BY forecast_date DESC LIMIT 1: a row with the greatest key, the first
\* stored among equals
latest_first(rows, key) ==
    IF rows = <<>> THEN <<>>
    ELSE <<rows[CHOOSE i \in DOMAIN rows :
                  \A j \in DOMAIN rows :
                      /\ key[i] >= key[j]
                      /\ (j < i => key[j] < key[i])]>>

\* the order of DATE and DATETIME values
date_key(rows) == [i \in DOMAIN rows |-> rows[i].forecast_date]
datetime_key(rows) ==
    [i \in DOMAIN rows |-> rows[i].forecast_date.day * 86400 + rows[i].forecast_date.tod]

\* lines 703-713
GfExec(p) ==
    /\ proc[p].pc = "gf_exec"
    /\ \E o \in ExecOutcomes :
          IF o = "ok"
          THEN /\ cursor' = Select(p, ProjectAll(
                      latest_first(cache_rows_of(proc[p].uid),
                                   date_key(cache_rows_of(proc[p].uid))),
                      {"forecast_date", "forecast_data"}))
               /\ proc' = [proc EXCEPT ![p].pc = "gf_fetch"]
          ELSE /\ proc' = [proc EXCEPT ![p] =
                              Respond(@, 500, "ERROR", "cache error", <<>>)]
               /\ UNCHANGED cursor
    /\ UNCHANGED_DB /\ UNCHANGED_ENV /\ UNCHANGED lastOk

\* lines 612-623
format_forecast_for_response(entries) ==
    [k \in DOMAIN entries |->
        [week_start |-> entries[k].week_start, week_end |-> entries[k].week_end,
         predicted_sales |-> entries[k].predicted_sales,
         lower_bound |-> entries[k].lower_bound,
         upper_bound |-> entries[k].upper_bound]]

\* line 716 with the test dropped: every call recomputes
cache_miss_always(got) == TRUE

\* line 716: cached_forecast is None
cache_miss(got) == ~got

\* lines 714-732: a miss calls update_forecast(), a hit returns the stored list
GfFetch(p) ==
    /\ proc[p].pc = "gf_fetch"
    /\ LET r == proc[p]
           got == cursor.has /\ cursor.rows # <<>>
           cached_forecast == Head(cursor.rows)
       IN /\ cursor' = IF got THEN [cursor EXCEPT !.rows = Tail(@)] ELSE cursor
          /\ proc' = [proc EXCEPT ![p] =
                IF ~cursor.has THEN Respond(@, 500, "ERROR", "cache error", <<>>)
                ELSE IF cache_miss(got) THEN [@ EXCEPT !.pc = "cf_exec_orders"]
                ELSE IF ~HasKey(cached_forecast, "forecast_data")
                THEN Respond(@, 500, "ERROR", "internal", <<>>)
                ELSE Respond(@, 200, "OK", "cached",
                        format_forecast_for_response(
                            json_loads(cached_forecast.forecast_data)))]
    /\ UNCHANGED_DB /\ UNCHANGED_ENV /\ UNCHANGED lastOk

\* ------------------------------------------------------- getForecastChart
perf_rows_of(user_id) ==
    SelectSeq(forecast_performance, LAMBDA row : row.user_id = user_id)

\* lines 864-873
ChartExec(p) ==
    /\ proc[p].pc = "chart_exec"
    /\ \E o \in ExecOutcomes :
          IF o = "ok"
          THEN /\ cursor' = Select(p, ProjectAll(
                      latest_first(perf_rows_of(proc[p].uid),
                                   datetime_key(perf_rows_of(proc[p].uid))),
                      {"forecast_data"}))
               /\ proc' = [proc EXCEPT ![p].pc = "chart_fetch"]
          ELSE /\ proc' = [proc EXCEPT ![p] =
                              Respond(@, 500, "ERROR", "internal", <<>>)]
               /\ UNCHANGED cursor
    /\ UNCHANGED_DB /\ UNCHANGED_ENV /\ UNCHANGED lastOk

\* lines 885-908: one label and three data points per entry
chart_json(entries) ==
    [k \in DOMAIN entries |->
        [label |-> parse_Bdy(entries[k].week_start),
         predicted |-> entries[k].predicted_sales,
         upper |-> entries[k].upper_bound, lower |-> entries[k].lower_bound]]

chart_on_missing_empty(r) == Respond(r, 200, "line", "chart", <<>>)

\* lines 874-878: no row, no chart
chart_on_missing(r) ==
    Respond(r, 404, "ERROR", "No forecast found for this user.", <<>>)

\* lines 874-962
ChartFetch(p) ==
    /\ proc[p].pc = "chart_fetch"
    /\ LET got == cursor.has /\ cursor.rows # <<>>
           row == Head(cursor.rows)
       IN /\ cursor' = IF got THEN [cursor EXCEPT !.rows = Tail(@)] ELSE cursor
          /\ proc' = [proc EXCEPT ![p] =
                IF ~cursor.has THEN Respond(@, 500, "ERROR", "internal", <<>>)
                ELSE IF ~got THEN chart_on_missing(@)
                ELSE IF ~HasKey(row, "forecast_data")
                THEN Respond(@, 500, "ERROR", "internal", <<>>)
                ELSE Respond(@, 200, "line", "chart",
                             chart_json(json_loads(row.forecast_data)))]
    /\ UNCHANGED_DB /\ UNCHANGED_ENV /\ UNCHANGED lastOk

\* --------------------------------------------------------- scheduled jobs
\* schedule_jobs lines 743-765: max_instances=1, so a tick that finds the
\* job's previous instance running starts nothing; the interval job fires
\* every 360 minutes, the cron job on Monday at 00:00:01 UTC
JobOp(j) == IF j = JobInterval THEN "job_interval" ELSE "job_monday"

JobDue_always(j) == TRUE

JobDue(j) == j = JobMonday => (weekday(now.day) = 0 /\ now.tod = GraceSecond)

\* lines 748 and 761: max_instances=1, one slot per job
max_instances == 1
running_instances(j) == IF Free(j) THEN 0 ELSE 1

may_start_unbounded(j) == TRUE

\* the executor accepts a run while fewer than max_instances are running
may_start(j) == running_instances(j) < max_instances

JobTick(j) ==
    /\ j \in Jobs /\ may_start(j) /\ opsLeft > 0 /\ JobDue(j)
    /\ proc' = Recycle(j, [IdleProc EXCEPT !.pc = "job_exec_users", !.op = JobOp(j)])
    /\ opsLeft' = opsLeft - 1
    /\ UNCHANGED <<now, orders, forecast_cache, forecast_performance, cursor,
                   lastOk, fx>>

\* a trigger that fires while the job's instance is running: the executor
\* logs the run as skipped and submits nothing
JobSkip(j) ==
    /\ j \in Jobs /\ ~may_start(j) /\ opsLeft > 0 /\ JobDue(j)
    /\ proc' = [proc EXCEPT ![j].resp.logged =
                    "skipped: maximum number of running instances reached"]
    /\ opsLeft' = opsLeft - 1
    /\ UNCHANGED <<now, orders, forecast_cache, forecast_performance, cursor,
                   lastOk, fx>>

\* lines 775 and 802: SELECT user_id FROM users
JobExecUsers(j) ==
    /\ proc[j].pc = "job_exec_users"
    /\ \E o \in ExecOutcomes :
          IF o = "ok"
          THEN /\ cursor' = Select(j, ProjectAll([i \in 1..NumUsers |-> users[i]],
                                                 {"user_id"}))
               /\ proc' = [proc EXCEPT ![j].pc = "job_fetch_users"]
          ELSE /\ proc' = [proc EXCEPT ![j] = JobDone(@)]
               /\ UNCHANGED cursor
    /\ UNCHANGED_DB /\ UNCHANGED_ENV /\ UNCHANGED lastOk

\* lines 776 and 803: users = cursor.fetchall()
JobFetchUsers(j) ==
    /\ proc[j].pc = "job_fetch_users"
    /\ IF cursor.has
       THEN /\ proc' = [proc EXCEPT ![j] =
                           [@ EXCEPT !.pc = "job_next", !.todo = cursor.rows]]
            /\ cursor' = [cursor EXCEPT !.rows = <<>>]
       ELSE /\ proc' = [proc EXCEPT ![j] = JobDone(@)]
            /\ UNCHANGED cursor
    /\ UNCHANGED_DB /\ UNCHANGED_ENV /\ UNCHANGED lastOk

\* lines 779-781 and 806-809: the next user of the loop
JobNext(j) ==
    /\ proc[j].pc = "job_next"
    /\ LET r == proc[j]
       IN proc' = [proc EXCEPT ![j] =
             IF r.todo = <<>> THEN JobDone(r)
             ELSE IF ~HasKey(Head(r.todo), "user_id") THEN JobDone(r)
             ELSE [r EXCEPT !.uid = Head(r.todo).user_id, !.todo = Tail(r.todo),
                            !.pc = IF r.op = "job_interval" THEN "count_exec"
                                   ELSE "cf_exec_orders"]]
    /\ UNCHANGED cursor /\ UNCHANGED_DB /\ UNCHANGED_ENV /\ UNCHANGED lastOk

\* lines 589-601: the rows counted, bounds being dates (midnight) compared
\* with the DATETIME column
status_changes(tbl, user_id, today) ==
    LET this_weeks_monday == today - weekday(today)
        last_weeks_monday == this_weeks_monday - 7
        last_weeks_sunday == last_weeks_monday + 6
        lo == [day |-> last_weeks_monday, tod |-> 0]
        hi == [day |-> last_weeks_sunday, tod |-> 0]
    IN Cardinality({i \in DOMAIN tbl :
           /\ tbl[i].user_id = user_id
           /\ tbl[i].status_last_changed_at # NullInstant
           /\ ~Later(lo, tbl[i].status_last_changed_at)
           /\ ~Later(tbl[i].status_last_changed_at, hi)})

\* count_status_changes_in_last_full_week lines 589-602; an error returns 0
CountExec(j) ==
    /\ proc[j].pc = "count_exec"
    /\ \E o \in ExecOutcomes :
          IF o = "ok"
          THEN /\ cursor' = Select(j, <<[cnt |-> status_changes(orders, proc[j].uid,
                                                                now.day)]>>)
               /\ proc' = [proc EXCEPT ![j].pc = "count_fetch"]
          ELSE /\ proc' = [proc EXCEPT ![j].pc = "job_next"]
               /\ UNCHANGED cursor
    /\ UNCHANGED_DB /\ UNCHANGED_ENV /\ UNCHANGED lastOk

\* lines 603-607 and 781-793: recompute when the count reaches the threshold
CountFetch(j) ==
    /\ proc[j].pc = "count_fetch"
    /\ LET got == cursor.has /\ cursor.rows # <<>>
           result == Head(cursor.rows)
           recent_changes == IF got /\ HasKey(result, "cnt") THEN result.cnt ELSE 0
       IN /\ cursor' = IF got THEN [cursor EXCEPT !.rows = Tail(@)] ELSE cursor
          /\ proc' = [proc EXCEPT ![j].pc =
                         IF recent_changes >= ChangeThreshold THEN "cf_exec_orders"
                         ELSE "job_next"]
    /\ UNCHANGED_DB /\ UNCHANGED_ENV /\ UNCHANGED lastOk

\* ------------------------------------------------------------------ system
NoRun == [set |-> FALSE, json |-> json_dumps(<<>>), src |-> NoSrc]

\* two orders of tenant 1, in the two weeks that closed before StartDay
SeedOrders ==
    [i \in {1, 2} |->
        [order_id |-> i, user_id |-> 1, order_status |-> "New",
         order_date |-> IF i = 1 THEN 5 ELSE 12,
         old_status |-> None, status_last_changed_at |-> NullInstant]]

NoOrders == [i \in {} |-> 0]

Init ==
    /\ now = [day |-> StartDay, tod |-> GraceSecond]
    /\ orders = SeedOrders
    /\ forecast_cache = <<>>
    /\ forecast_performance = <<>>
    /\ cursor = [has |-> FALSE, rows |-> <<>>, rowcount |-> 0 - 1, owner |-> 0]
    /\ proc = [p \in Procs |-> IdleProc]
    /\ opsLeft = MaxOps
    /\ lastOk = [u \in UserIds |-> NoRun]
    /\ fx = NoFx

Step(p) ==
    \/ AuthCheck(p) \/ ValidateFetch(p) \/ AuthUidExec(p) \/ AuthUidFetch(p)
    \/ InsertExec(p) \/ InsertRowcount(p)
    \/ UosExec(p) \/ UosFetch(p) \/ UosUpdate(p)
    \/ GfExec(p) \/ GfFetch(p)
    \/ ChartExec(p) \/ ChartFetch(p)
    \/ CfExecOrders(p) \/ CfFetchOrders(p) \/ CfInsertPerf(p)
    \/ CfSelectCache(p) \/ CfFetchCache(p) \/ CfWriteCache(p)
    \/ JobExecUsers(p) \/ JobFetchUsers(p) \/ JobNext(p)
    \/ CountExec(p) \/ CountFetch(p)

\* threads and jobs interleave at every cursor call
Next ==
    \/ \E p \in Procs : StartRequest(p) \/ JobTick(p) \/ Step(p)
    \/ Tick

Spec == Init /\ [][Next]_vars

\* one request or job at a time
Quiet == \A p \in Procs : Free(p)

StartSerial(p) == Quiet /\ StartFrom(p, Requests)
JobTickSerial(j) == Quiet /\ JobTick(j)

NextSerial ==
    \/ \E p \in Procs : StartSerial(p) \/ JobTickSerial(p) \/ Step(p)
    \/ Tick

SpecSerial == Init /\ [][NextSerial]_vars

\* a longer history of requests, one at a time, without the scheduler: one
\* request of each kind, one more operation than MaxOps
InitLong ==
    /\ now = [day |-> StartDay, tod |-> GraceSecond]
    /\ orders = SeedOrders
    /\ forecast_cache = <<>>
    /\ forecast_performance = <<>>
    /\ cursor = [has |-> FALSE, rows |-> <<>>, rowcount |-> 0 - 1, owner |-> 0]
    /\ proc = [p \in Procs |-> IdleProc]
    /\ opsLeft = MaxOps + 1
    /\ lastOk = [u \in UserIds |-> NoRun]
    /\ fx = NoFx

StartLong(p) == Quiet /\ StartFrom(p, ConcRequests)

StepRequest(p) ==
    \/ AuthCheck(p) \/ ValidateFetch(p) \/ AuthUidExec(p) \/ AuthUidFetch(p)
    \/ InsertExec(p) \/ InsertRowcount(p)
    \/ UosExec(p) \/ UosFetch(p) \/ UosUpdate(p)
    \/ GfExec(p) \/ GfFetch(p)
    \/ ChartExec(p) \/ ChartFetch(p)
    \/ CfExecOrders(p) \/ CfFetchOrders(p) \/ CfInsertPerf(p)
    \/ CfSelectCache(p) \/ CfFetchCache(p) \/ CfWriteCache(p)

NextLong ==
    \/ \E p \in Threads : StartLong(p) \/ StepRequest(p)
    \/ Tick

SpecLong == InitLong /\ [][NextLong]_vars

\* the same requests, one at a time, for a tenant whose last order is more
\* than ForecastPeriods weeks old: the clock starts 4 weeks later
InitStale ==
    /\ now = [day |-> StartDay + 7 * ForecastPeriods, tod |-> GraceSecond]
    /\ orders = SeedOrders
    /\ forecast_cache = <<>>
    /\ forecast_performance = <<>>
    /\ cursor = [has |-> FALSE, rows |-> <<>>, rowcount |-> 0 - 1, owner |-> 0]
    /\ proc = [p \in Procs |-> IdleProc]
    /\ opsLeft = MaxOps
    /\ lastOk = [u \in UserIds |-> NoRun]
    /\ fx = NoFx

NextStale == \E p \in Threads : StartLong(p) \/ StepRequest(p)

SpecStale == InitStale /\ [][NextStale]_vars

\* requests handled one at a time for a tenant with two orders in one closed
\* week, the second of them either counted or cancelled
EditOrders(st) ==
    [i \in 1..MaxOrderId |->
        [order_id |-> i, user_id |-> 1,
         order_status |-> IF i = MaxOrderId THEN st ELSE "New",
         order_date |-> IF i = 2 THEN 12 ELSE 5,
         old_status |-> None, status_last_changed_at |-> NullInstant]]

EditRequests ==
    {rq \in Requests :
        /\ rq.cred \in ValidCreds
        /\ rq.op = "insertOrders" =>
              /\ ~rq.arg.bulk /\ rq.arg.list[1].order_status = "New"
              /\ rq.arg.list[1].order_date.ok /\ rq.arg.list[1].order_date.day = 12
              /\ rq.arg.list[1].id = 1
        /\ rq.op = "updateOrderStatus" => rq.arg.order_id \in {1, MaxOrderId}
        /\ rq.op = "getForecastByDate" => rq.arg.ref.ok}

InitEdit ==
    /\ now = [day |-> StartDay, tod |-> GraceSecond]
    /\ \E st \in InStatuses : orders = EditOrders(st)
    /\ forecast_cache = <<>>
    /\ forecast_performance = <<>>
    /\ cursor = [has |-> FALSE, rows |-> <<>>, rowcount |-> 0 - 1, owner |-> 0]
    /\ proc = [p \in Procs |-> IdleProc]
    /\ opsLeft = MaxOps + 1
    /\ lastOk = [u \in UserIds |-> NoRun]
    /\ fx = NoFx

StartEdit(p) == Quiet /\ StartFrom(p, EditRequests)

NextEdit == \E p \in Threads : StartEdit(p) \/ StepRequest(p)

SpecEdit == InitEdit /\ [][NextEdit]_vars

\* the scheduler's jobs alone, one instance at a time, from the Sunday
\* before the Monday after StartDay: tenant 1 has ChangeThreshold orders, all but the
\* last with a status change at the first instant of the last full week and
\* the last with one at instant t (or none); tenant 2 has two orders that
\* never changed
JobsMonday == week_start_date(StartDay) + 7
JobsChangeTimes ==
    {NullInstant} \cup
    {[day |-> JobsMonday - 8, tod |-> GraceSecond],
     [day |-> JobsMonday - 7, tod |-> 0],
     [day |-> JobsMonday - 1, tod |-> 0],
     [day |-> JobsMonday - 1, tod |-> GraceSecond]}

JobsOrders(t) ==
    [i \in 1..(ChangeThreshold + 2) |->
        [order_id |-> i,
         user_id |-> IF i <= ChangeThreshold THEN 1 ELSE 2,
         order_status |-> "New",
         order_date |-> IF i % 2 = 1 THEN 5 ELSE 12,
         old_status |-> IF i < ChangeThreshold \/ (i = ChangeThreshold /\ t # NullInstant)
                        THEN "Cancelled" ELSE None,
         status_last_changed_at |->
             IF i < ChangeThreshold THEN [day |-> JobsMonday - 7, tod |-> 0]
             ELSE IF i = ChangeThreshold THEN t ELSE NullInstant]]

InitJobs ==
    /\ now = [day |-> JobsMonday - 1, tod |-> GraceSecond]
    /\ \E t \in JobsChangeTimes : orders = JobsOrders(t)
    /\ forecast_cache = <<>>
    /\ forecast_performance = <<>>
    /\ cursor = [has |-> FALSE, rows |-> <<>>, rowcount |-> 0 - 1, owner |-> 0]
    /\ proc = [p \in Procs |-> IdleProc]
    /\ opsLeft = MaxOps
    /\ lastOk = [u \in UserIds |-> NoRun]
    /\ fx = NoFx

StepJob(j) ==
    \/ JobExecUsers(j) \/ JobFetchUsers(j) \/ JobNext(j)
    \/ CountExec(j) \/ CountFetch(j)
    \/ CfExecOrders(j) \/ CfFetchOrders(j) \/ CfInsertPerf(j)
    \/ CfSelectCache(j) \/ CfFetchCache(j) \/ CfWriteCache(j)

NextJobs ==
    \/ \E j \in Jobs : JobTickSerial(j) \/ StepJob(j)
    \/ Tick

SpecJobs == InitJobs /\ [][NextJobs]_vars

\* the two jobs on their pool threads, interleaved at every cursor call,
\* with triggers that fire while an instance is running
NextOverlap ==
    \/ \E j \in Jobs : JobTick(j) \/ JobSkip(j) \/ StepJob(j)
    \/ Tick

SpecOverlap == Init /\ [][NextOverlap]_vars

\* requests handled one at a time against a database that may refuse the
\* INSERT into forecast_performance
InitFault ==
    /\ now = [day |-> StartDay, tod |-> GraceSecond]
    /\ orders = SeedOrders
    /\ forecast_cache = <<>>
    /\ forecast_performance = <<>>
    /\ cursor = [has |-> FALSE, rows |-> <<>>, rowcount |-> 0 - 1, owner |-> 0]
    /\ proc = [p \in Procs |-> IdleProc]
    /\ opsLeft = MaxOps
    /\ lastOk = [u \in UserIds |-> NoRun]
    /\ fx = [NoFx EXCEPT !.f = "perf_fault"]

NextFault == \E p \in Threads : StartLong(p) \/ StepRequest(p)

SpecFault == InitFault /\ [][NextFault]_vars

\* the cutoff of every reference instant
\* the week of one order date as the two places of the program compute it:
\* update_order_status for its week check, calculate_forecast for the bucket
NoWeek == [guard |-> NullInstant.day, bucket |-> NullInstant.day]

InitWeek ==
    /\ now = [day |-> StartDay, tod |-> GraceSecond]
    /\ orders = NoOrders
    /\ forecast_cache = <<>>
    /\ forecast_performance = <<>>
    /\ cursor = [has |-> FALSE, rows |-> <<>>, rowcount |-> 0 - 1, owner |-> 0]
    /\ proc = [p \in Procs |-> IdleProc]
    /\ opsLeft = 0
    /\ lastOk = [u \in UserIds |-> NoRun]
    /\ \E d \in 0..MaxRefDay :
          fx = [f |-> "week", in |-> d, done |-> FALSE, out |-> NoWeek]

\* update_order_status lines 663-667: week_end_date of the order's date
ApplyGuard ==
    /\ fx.f = "week" /\ fx.out.guard = NoWeek.guard
    /\ fx' = [fx EXCEPT !.out.guard = week_end_date(fx.in),
                        !.done = (fx.out.bucket # NoWeek.bucket)]
    /\ UNCHANGED <<now, orders, forecast_cache, forecast_performance, cursor,
                   proc, opsLeft, lastOk>>

\* calculate_forecast lines 147-175 on the order alone: the label of the
\* bucket that counts it
ApplyBucket ==
    /\ fx.f = "week" /\ fx.out.bucket = NoWeek.bucket
    /\ fx' = [fx EXCEPT
                 !.out.bucket =
                     weekly_orders(<<[order_status |-> "New", order_date |-> fx.in]>>)[1].ds,
                 !.done = (fx.out.guard # NoWeek.guard)]
    /\ UNCHANGED <<now, orders, forecast_cache, forecast_performance, cursor,
                   proc, opsLeft, lastOk>>

NextWeek == ApplyGuard \/ ApplyBucket

SpecWeek == InitWeek /\ [][NextWeek]_vars

InitCutoff ==
    /\ now = [day |-> StartDay, tod |-> GraceSecond]
    /\ orders = NoOrders
    /\ forecast_cache = <<>>
    /\ forecast_performance = <<>>
    /\ cursor = [has |-> FALSE, rows |-> <<>>, rowcount |-> 0 - 1, owner |-> 0]
    /\ proc = [p \in Procs |-> IdleProc]
    /\ opsLeft = 0
    /\ lastOk = [u \in UserIds |-> NoRun]
    /\ \E r \in RefInstants : fx = [f |-> "cutoff", in |-> r, done |-> FALSE, out |-> 0]

SpecCutoff == InitCutoff /\ [][ApplyCutoff]_vars

\* the weekly aggregation of every small list of order rows
MaxRows == 3
AggStatuses == {"New", "Otkazana", "Terminirana", "Cancelled", "cancelled"}
AggDays == {0, 6, 7, 20}
AggRows ==
    UNION {[1..n -> {[order_status |-> st, order_date |-> d] :
                        st \in AggStatuses, d \in AggDays}] : n \in 0..MaxRows}

\* lines 147-175 applied to the fetched rows
ApplyAggregate ==
    /\ fx.f = "aggregate" /\ ~fx.done
    /\ fx' = [fx EXCEPT !.done = TRUE, !.out = weekly_orders(fx.in)]
    /\ UNCHANGED <<now, orders, forecast_cache, forecast_performance, cursor,
                   proc, opsLeft, lastOk>>

InitAggregate ==
    /\ now = [day |-> StartDay, tod |-> GraceSecond]
    /\ orders = NoOrders
    /\ forecast_cache = <<>>
    /\ forecast_performance = <<>>
    /\ cursor = [has |-> FALSE, rows |-> <<>>, rowcount |-> 0 - 1, owner |-> 0]
    /\ proc = [p \in Procs |-> IdleProc]
    /\ opsLeft = 0
    /\ lastOk = [u \in UserIds |-> NoRun]
    /\ \E rows \in AggRows :
          fx = [f |-> "aggregate", in |-> rows, done |-> FALSE, out |-> <<>>]

SpecAggregate == InitAggregate /\ [][ApplyAggregate]_vars

\* ================================================================= claims
RunPcs == {"cf_fetch_orders", "cf_insert_perf", "cf_select_cache",
           "cf_fetch_cache", "cf_write_cache"}
FetchPcs == {"validate_fetch", "auth_uid_fetch", "insert_rowcount", "uos_fetch",
             "gf_fetch", "chart_fetch", "cf_fetch_orders", "cf_fetch_cache",
             "job_fetch_users", "count_fetch"}
AuthPcs == {"require_auth", "validate_fetch", "auth_uid_exec", "auth_uid_fetch"}

\* a forecast run (calculate_forecast) of tenant u is executing on p
InRun(p, u) == proc[p].pc \in RunPcs /\ proc[p].uid = u

\* p is inside its endpoint's handler: it has passed require_auth
InHandler(p) == p \in Threads /\ ~Free(p) /\ proc[p].pc \notin AuthPcs

\* C1: once a run of a tenant has succeeded and none is executing, exactly
\* one forecast_cache row exists for the tenant and it holds the payload of
\* the latest successful run, in any interleaving of the triggers.
C1_OneRowLatestPayload ==
    \A u \in UserIds :
        (lastOk[u].set /\ \A p \in Procs : ~InRun(p, u)) =>
            /\ Len(cache_rows_of(u)) = 1
            /\ cache_rows_of(u)[1].forecast_data = lastOk[u].json
            /\ cache_rows_of(u)[1].src = lastOk[u].src

\* C2: for a single tenant at most one forecast run is executing at any
\* time, whatever requests and jobs are in flight.
C2_OneRunPerTenant ==
    \A u \in UserIds : Cardinality({p \in Procs : InRun(p, u)}) <= 1

\* C3: between an operation's execute and its fetch no other operation
\* executes a statement on the shared cursor: a thread about to fetch is the
\* one whose statement the cursor holds.
C3_CursorNotShared ==
    \A p \in Procs : proc[p].pc \in FetchPcs => cursor.owner = p

\* C4: a request that passed authentication is handled with request.user_id
\* equal to the user id of the account whose username and password it
\* presented.
C4_UserIdIsCallers ==
    \A p \in Procs :
        InHandler(p) =>
            \E i \in UserIds :
                /\ users[i].username = proc[p].cred.username
                /\ check_password_hash(users[i].password_hash, proc[p].cred.password)
                /\ proc[p].uid = i

\* C5: for every reference instant the cutoff is a Sunday on or before the
\* instant's date, and it is the instant's own date only once 00:00:01 of
\* that Sunday has passed: it never ends a week that is not fully elapsed.
C5_CutoffWeekElapsed ==
    (fx.f = "cutoff" /\ fx.done) =>
        /\ weekday(fx.out) = 6
        /\ fx.out <= fx.in.day
        /\ fx.out = fx.in.day => fx.in.tod >= GraceSecond

\* the grace rule acted: on a Sunday before 00:00:01 the cutoff is the
\* Sunday a week earlier
C5_Witness ==
    /\ fx.f = "cutoff" /\ fx.done
    /\ weekday(fx.in.day) = 6 /\ fx.in.tod < GraceSecond
    /\ fx.out = fx.in.day - 7

\* C6: the history a cached forecast was computed from holds only weekly
\* buckets whose week-end date is on or before the cutoff of the run that
\* produced the entry, and that cutoff is the one of the run's reference.
C6_CacheFromCompleteWeeks ==
    \A i \in DOMAIN forecast_cache :
        LET src == forecast_cache[i].src
        IN /\ src.cutoff = cutoff_date(src.ref)
           /\ \A k \in DOMAIN src.hist : src.hist[k].ds <= src.cutoff

\* a cache entry of a run whose aggregation held a bucket after the cutoff
C6_Witness ==
    \E i \in DOMAIN forecast_cache :
        LET src == forecast_cache[i].src
        IN /\ \E k \in DOMAIN src.weekly : src.weekly[k].ds > src.cutoff
           /\ src.hist # <<>>
           /\ \A k \in DOMAIN src.hist : src.hist[k].ds <= src.cutoff

\* the count of the W-SUN bucket labelled ds among the tenant's orders
BucketCount(tbl, u, ds) ==
    Cardinality({o \in DOMAIN tbl :
                    /\ tbl[o].user_id = u
                    /\ tbl[o].order_status \notin cancelled_keywords
                    /\ wsun_label(tbl[o].order_date) = ds})

\* the step is an accepted updateOrderStatus: its UPDATE
AcceptedUpdate ==
    \E p \in Threads :
        /\ proc[p].op = "updateOrderStatus" /\ proc[p].pc = "uos_update"
        /\ proc'[p].pc = "done" /\ proc'[p].resp.code = 200

\* C7: once a week is closed and a cache entry computed from its bucket
\* exists, a step changes the bucket's order count only if it is an accepted
\* updateOrderStatus.
C7_ClosedBucketFrozen ==
    [][\A i \in DOMAIN forecast_cache :
          LET c == forecast_cache[i]
          IN \A k \in DOMAIN c.src.hist :
                LET ds == c.src.hist[k].ds
                IN (ds <= cutoff_date(now)
                    /\ BucketCount(orders', c.user_id, ds)
                         # BucketCount(orders, c.user_id, ds))
                   => AcceptedUpdate]_vars

\* the rows weekly_orders counts in the bucket labelled ds: no cancellation
\* synonym, order_date within Monday ds - 6 .. Sunday ds
CountedIn(rows, ds) ==
    {i \in DOMAIN rows : /\ rows[i].order_status \notin cancelled_keywords
                         /\ ds - 6 <= rows[i].order_date
                         /\ rows[i].order_date <= ds}

\* C8: every bucket ends on a Sunday and counts exactly the rows of its
\* Monday-to-Sunday week whose status is no cancellation synonym; buckets do
\* not repeat, and every such row lies in one bucket.
C8_BucketsCountNonCancelledOnce ==
    (fx.f = "aggregate" /\ fx.done) =>
        /\ \A k \in DOMAIN fx.out :
              /\ weekday(fx.out[k].ds) = 6
              /\ fx.out[k].y = Cardinality(CountedIn(fx.in, fx.out[k].ds))
        /\ \A k, m \in DOMAIN fx.out : fx.out[k].ds = fx.out[m].ds => k = m
        /\ \A i \in DOMAIN fx.in :
              fx.in[i].order_status \notin cancelled_keywords =>
                  \E k \in DOMAIN fx.out : i \in CountedIn(fx.in, fx.out[k].ds)

\* rows of both synonyms and of two counted orders of one week were aggregated
C8_Witness ==
    /\ fx.f = "aggregate" /\ fx.done
    /\ \E i, j, k \in DOMAIN fx.in :
          /\ fx.in[i].order_status = "Otkazana"
          /\ fx.in[j].order_status = "New" /\ fx.in[j].order_date = 0
          /\ fx.in[k].order_status = "cancelled" /\ fx.in[k].order_date = 6
          /\ fx.in[i].order_date = 6
    /\ Len(fx.out) = 1 /\ fx.out[1].y = 2

\* the account whose username and password the request presented
Account(p) ==
    {i \in UserIds : /\ users[i].username = proc[p].cred.username
                     /\ check_password_hash(users[i].password_hash,
                                            proc[p].cred.password)}

\* C9: the INSERT of a request leaves every order whose id was stored
\* already as it was and does not count it; the response is 200 OK, for a
\* single order "already exists and was ignored" exactly when nothing was
\* inserted, for a list the number of rows inserted.
C9_DuplicateInsertIgnored ==
    [][\A p \in Threads :
          /\ (proc[p].pc = "insert_exec" /\ proc'[p].pc = "insert_rowcount") =>
                LET list == proc[p].arg.list
                    ids == {list[i].id : i \in DOMAIN list}
                IN /\ \A o \in ids \cap DOMAIN orders :
                         o \in DOMAIN orders' /\ orders'[o] = orders[o]
                   /\ cursor'.rowcount = Cardinality(ids \ DOMAIN orders)
          /\ (proc[p].pc = "insert_rowcount" /\ proc'[p].pc = "done") =>
                /\ orders' = orders
                /\ proc'[p].resp.code = 200 /\ proc'[p].resp.status = "OK"
                /\ proc[p].arg.bulk =>
                      /\ proc'[p].resp.data = <<cursor.rowcount>>
                      /\ proc'[p].resp.msg = "orders inserted, duplicates ignored"
                /\ ~proc[p].arg.bulk =>
                      (proc'[p].resp.msg = "Order already exists and was ignored."
                          <=> cursor.rowcount = 0)]_vars

\* a second insert of a stored id, with other data, answered as a duplicate
C9_Witness ==
    \E p \in Threads :
        /\ proc[p].pc = "done" /\ proc[p].op = "insertOrders"
        /\ proc[p].resp.code = 200
        /\ proc[p].resp.msg = "Order already exists and was ignored."
        /\ LET o == proc[p].arg.list[1]
           IN /\ o.id \in DOMAIN orders
              /\ orders[o.id] # new_order_row(o, proc[p].uid)

\* thread p handles an updateOrderStatus of its own tenant's order, with a
\* status that differs, for an order whose week ends after today
IncompleteWeekUpdate(p) ==
    /\ proc[p].op = "updateOrderStatus" /\ ~Free(p)
    /\ proc[p].arg.order_id \in DOMAIN orders
    /\ orders[proc[p].arg.order_id].user_id \in Account(p)
    /\ orders[proc[p].arg.order_id].order_status # proc[p].arg.order_status
    /\ week_end_date(orders[proc[p].arg.order_id].order_date) > now.day

\* C10: no step of such a request changes the order, and the request ends
\* with HTTP 200, status INFO, "update ignored (incomplete week)".
C10_IncompleteWeekRejected ==
    [][\A p \in Threads :
          IncompleteWeekUpdate(p) =>
              /\ orders'[proc[p].arg.order_id] = orders[proc[p].arg.order_id]
              /\ proc'[p].pc = "done" =>
                    /\ proc'[p].resp.code = 200
                    /\ proc'[p].resp.status = "INFO"
                    /\ proc'[p].resp.msg = "update ignored (incomplete week)"]_vars

\* such a request was answered
C10_Witness ==
    \E p \in Threads :
        /\ proc[p].pc = "done" /\ proc[p].op = "updateOrderStatus"
        /\ proc[p].resp.status = "INFO"
        /\ proc[p].arg.order_id \in DOMAIN orders
        /\ orders[proc[p].arg.order_id].user_id \in Account(p)
        /\ orders[proc[p].arg.order_id].order_status # proc[p].arg.order_status
        /\ week_end_date(orders[proc[p].arg.order_id].order_date) > now.day
        /\ orders[proc[p].arg.order_id].old_status = None

\* thread p handles an updateOrderStatus of its own tenant's order, with a
\* status that differs, for an order whose week ended on or before today
CompleteWeekUpdate(p) ==
    /\ proc[p].op = "updateOrderStatus" /\ ~Free(p)
    /\ proc[p].arg.order_id \in DOMAIN orders
    /\ orders[proc[p].arg.order_id].user_id \in Account(p)
    /\ orders[proc[p].arg.order_id].order_status # proc[p].arg.order_status
    /\ week_end_date(orders[proc[p].arg.order_id].order_date) <= now.day

\* C11: such a request ends with the order's status set to the new status,
\* old_status set to the status held immediately before and
\* status_last_changed_at set to the time of the update.
C11_CompleteWeekUpdated ==
    [][\A p \in Threads :
          (CompleteWeekUpdate(p) /\ proc'[p].pc = "done") =>
              LET id == proc[p].arg.order_id
              IN /\ proc'[p].resp.code = 200 /\ proc'[p].resp.status = "OK"
                 /\ orders'[id].order_status = proc[p].arg.order_status
                 /\ orders'[id].old_status = orders[id].order_status
                 /\ orders'[id].status_last_changed_at = now
                 /\ orders'[id].user_id = orders[id].user_id
                 /\ orders'[id].order_date = orders[id].order_date]_vars

\* an order of a closed week was updated and records its previous status
C11_Witness ==
    \E p \in Threads :
        /\ proc[p].pc = "done" /\ proc[p].op = "updateOrderStatus"
        /\ proc[p].resp.msg = "updated"
        /\ proc[p].arg.order_id \in DOMAIN orders
        /\ orders[proc[p].arg.order_id].order_status = "Cancelled"
        /\ orders[proc[p].arg.order_id].old_status = "New"
        /\ orders[proc[p].arg.order_id].status_last_changed_at = now

\* thread p handles an updateOrderStatus, by an authenticated caller, of an
\* order that belongs to another tenant
ForeignUpdate(p) ==
    /\ proc[p].op = "updateOrderStatus" /\ ~Free(p)
    /\ Account(p) # {}
    /\ proc[p].arg.order_id \in DOMAIN orders
    /\ orders[proc[p].arg.order_id].user_id \notin Account(p)

\* C12: no step of such a request changes the order, and the request ends
\* with 403, whatever the requested status and the order's week.
C12_ForeignUpdateRejected ==
    [][\A p \in Threads :
          ForeignUpdate(p) =>
              /\ orders'[proc[p].arg.order_id] = orders[proc[p].arg.order_id]
              /\ proc'[p].pc = "done" => proc'[p].resp.code = 403]_vars

\* another tenant's order of a closed week, asked to take a different
\* status, was refused and is as it was
C12_Witness ==
    \E p \in Threads :
        /\ proc[p].pc = "done" /\ proc[p].op = "updateOrderStatus"
        /\ proc[p].resp.code = 403 /\ proc[p].resp.msg = "no permission"
        /\ proc[p].arg.order_id \in DOMAIN orders
        /\ orders[proc[p].arg.order_id].user_id \notin Account(p)
        /\ orders[proc[p].arg.order_id].order_status # proc[p].arg.order_status
        /\ week_end_date(orders[proc[p].arg.order_id].order_date) <= now.day
        /\ orders[proc[p].arg.order_id].old_status = None

\* thread p handles a getForecast of an authenticated caller whose tenant
\* has a cache row
CacheHit(p) ==
    /\ proc[p].op = "getForecast" /\ ~Free(p)
    /\ \E u \in Account(p) : cache_rows_of(u) # <<>>

\* C13: no step of such a request writes forecast_cache or
\* forecast_performance or enters a forecast run, and the request ends with
\* 200 and the payload stored in the tenant's cache row.
C13_CacheHitNoRecompute ==
    [][\A p \in Threads :
          CacheHit(p) =>
              /\ forecast_cache' = forecast_cache
              /\ forecast_performance' = forecast_performance
              /\ proc'[p].pc \notin RunPcs \cup {"cf_exec_orders"}
              /\ proc'[p].pc = "done" =>
                    \E u \in Account(p) :
                        /\ proc'[p].resp.code = 200
                        /\ proc'[p].resp.data = format_forecast_for_response(
                               json_loads(cache_rows_of(u)[1].forecast_data))]_vars

\* a hit answered from a cache row that is older than the tenant's orders:
\* the aggregation of the orders is no longer the one the row was computed from
C13_Witness ==
    \E p \in Threads :
        /\ proc[p].pc = "done" /\ proc[p].op = "getForecast"
        /\ proc[p].resp.code = 200 /\ proc[p].resp.msg = "cached"
        /\ \E u \in Account(p) :
              /\ cache_rows_of(u) # <<>>
              /\ weekly_orders(SelectSeq(table_rows(orders),
                                         LAMBDA o : o.user_id = u))
                    # cache_rows_of(u)[1].src.weekly

\* the statements of calculate_forecast after the forecast was computed: the
\* run returns {"forecast_data": output} from each of them
RunSucceededPcs == {"cf_insert_perf", "cf_select_cache", "cf_fetch_cache",
                    "cf_write_cache"}

\* C14: a getForecast that finds no cache row enters a forecast run for the
\* caller's tenant; when the run returns its forecast, the tenant has a cache
\* row holding it and the response is 200 with that payload; when the run
\* returns an error, the response is an error.
C14_MissRunsAndCaches ==
    [][\A p \in Threads :
          (proc[p].op = "getForecast" /\ ~Free(p)) =>
              /\ (proc[p].pc = "gf_fetch" /\ cursor.has
                     /\ \A u \in Account(p) : cache_rows_of(u) = <<>>) =>
                    (proc'[p].pc = "cf_exec_orders" /\ proc'[p].uid \in Account(p))
              /\ (proc[p].pc \in RunSucceededPcs /\ proc'[p].pc = "done") =>
                    /\ cache_rows_of(proc[p].uid)' # <<>>
                    /\ cache_rows_of(proc[p].uid)'[1].forecast_data = proc[p].out.json
                    /\ proc'[p].resp.code = 200
                    /\ proc'[p].resp.data =
                          format_forecast_for_response(proc[p].out.output)
              /\ (proc[p].pc \in {"cf_exec_orders", "cf_fetch_orders"}
                     /\ proc'[p].pc = "done") =>
                    (proc'[p].resp.code = 500 /\ proc'[p].resp.status = "ERROR")]_vars

\* the tenant has no row in the orders table
HasNoOrders(u) == \A i \in DOMAIN orders : orders[i].user_id # u

\* C15: a getForecast whose run reads the orders of a tenant that has none
\* ends at that read: the run returns "No orders found for this user", the
\* response is the error 500, and no row of forecast_cache or
\* forecast_performance is written, so the tenant still has no cache row.
C15_NoOrdersNoCacheRow ==
    [][\A p \in Threads :
          (/\ proc[p].op = "getForecast"
           /\ proc[p].pc \in {"cf_exec_orders", "cf_fetch_orders"}
           /\ HasNoOrders(proc[p].uid)) =>
              /\ proc'[p].pc \in {"cf_exec_orders", "cf_fetch_orders", "done"}
              /\ forecast_cache' = forecast_cache
              /\ forecast_performance' = forecast_performance
              /\ cache_rows_of(proc[p].uid)' = <<>>
              /\ proc'[p].pc = "done" =>
                    /\ proc'[p].resp.code = 500
                    /\ proc'[p].resp.status = "ERROR"
                    /\ proc'[p].resp.logged = "No orders found for this user"]_vars

C15_Witness ==
    \E p \in Threads :
        /\ proc[p].op = "getForecast" /\ proc[p].pc = "done"
        /\ HasNoOrders(proc[p].uid)
        /\ \E q \in UserIds : ~HasNoOrders(q)
        /\ proc[p].resp.logged = "No orders found for this user"
        /\ proc[p].resp.code = 500
        /\ cache_rows_of(proc[p].uid) = <<>>

\* C16: the forecast_date of every cache row is the end date of the last
\* historical weekly bucket of the run that wrote the row.
C16_ForecastDateIsLastBucket ==
    \A i \in 1..Len(forecast_cache) :
        forecast_cache[i].src.hist # <<>> =>
            forecast_cache[i].forecast_date =
                forecast_cache[i].src.hist[Len(forecast_cache[i].src.hist)].ds

\* C17: the payload that a run stores has exactly 4 periods, and each of
\* them is a week ending after the cutoff of that run.
C17_FourFuturePeriods ==
    \A i \in 1..Len(forecast_cache) :
        LET payload == json_loads(forecast_cache[i].forecast_data)
        IN  /\ Len(payload) = ForecastHead
            /\ \A k \in 1..Len(payload) :
                   payload[k].week_end[2] > forecast_cache[i].src.cutoff

\* the count of the week ending ds in a weekly aggregate, 0 when it has no row
WeekCount(weekly, ds) ==
    IF \E k \in DOMAIN weekly : weekly[k].ds = ds
    THEN (CHOOSE b \in {weekly[k] : k \in DOMAIN weekly} : b.ds = ds).y
    ELSE 0

\* the weekly aggregate of tenant u's orders, order i holding status st
WeeklyWith(u, i, st) ==
    weekly_orders(SelectSeq(table_rows([orders EXCEPT ![i].order_status = st]),
                            LAMBDA row : row.user_id = u))

\* order i of tenant u, in a closed week, had its status changed across the
\* cancellation synonyms after the tenant's cache row was computed
EditedSince(u, i) ==
    /\ orders[i].user_id = u
    /\ orders[i].status_last_changed_at # NullInstant
    /\ week_end_date(orders[i].order_date) <= now.day
    /\ (orders[i].order_status \in cancelled_keywords)
          # (orders[i].old_status \in cancelled_keywords)
    /\ cache_rows_of(u) # <<>>
    /\ cache_rows_of(u)[1].src.weekly = WeeklyWith(u, i, orders[i].old_status)

\* C18: when an updateForecast writes the cache of a tenant that has a row,
\* the row is replaced (the table keeps its length) by one computed from the
\* orders as they are now; for an order of a closed week whose status moved
\* into or out of the cancellation synonyms since the old row was computed,
\* the count of that week is one lower or one higher than in the old row.
C18_EditReaggregatedRowOverwritten ==
    [][\A p \in Threads :
          (/\ proc[p].op = "updateForecast" /\ proc[p].pc = "cf_write_cache"
           /\ proc'[p].pc = "done"
           /\ cache_rows_of(proc[p].uid) # <<>>) =>
              LET u == proc[p].uid
                  old == cache_rows_of(u)[1]
                  new == cache_rows_of(u)'[1]
              IN  /\ Len(forecast_cache') = Len(forecast_cache)
                  /\ Len(cache_rows_of(u)') = 1
                  /\ new.forecast_data = proc[p].out.json
                  /\ proc'[p].resp.code = 200
                  /\ \A i \in DOMAIN orders :
                        EditedSince(u, i) =>
                          /\ new.src.weekly = WeeklyWith(u, i, orders[i].order_status)
                          /\ WeekCount(new.src.weekly, wsun_label(orders[i].order_date))
                               = WeekCount(old.src.weekly, wsun_label(orders[i].order_date))
                                 + (IF orders[i].order_status \in cancelled_keywords
                                    THEN 0 - 1 ELSE 1)]_vars

\* an updateForecast is about to write over the row computed before order i
\* was cancelled (restored): its aggregate counts one order fewer (more)
C18_Witness ==
    \E p \in Threads : \E i \in DOMAIN orders :
        /\ proc[p].op = "updateForecast" /\ proc[p].pc = "cf_write_cache"
        /\ proc[p].tmp.existing
        /\ EditedSince(proc[p].uid, i)
        /\ orders[i].order_status \in cancelled_keywords
        /\ proc[p].out.src.weekly = WeeklyWith(proc[p].uid, i, orders[i].order_status)
        /\ WeekCount(cache_rows_of(proc[p].uid)[1].src.weekly,
                     wsun_label(orders[i].order_date)) = 2
        /\ WeekCount(proc[p].out.src.weekly, wsun_label(orders[i].order_date)) = 1

\* the errors with which calculate_forecast reports a history too short to
\* forecast from, each returned before the engine is constructed
InsufficientErrors ==
    {"No orders found for this user", "No data after aggregation",
     "Not enough data to make a forecast",
     "No complete weeks of data available for forecasting"}

\* C19: a run that reads orders of which fewer than 2 weekly buckets are on
\* or before the cutoff ends there with one of the insufficient-history
\* errors, the engine not having been called.
C19_ShortHistoryRejected ==
    [][\A p \in Threads :
          (/\ proc[p].pc = "cf_fetch_orders" /\ cursor.has
           /\ Len(complete_weeks(weekly_orders(cursor.rows),
                                  cutoff_date(proc[p].ref))) < 2) =>
              /\ proc'[p].pc = "done"
              /\ proc'[p].resp.code = 500
              /\ proc'[p].resp.logged \in InsufficientErrors]_vars

\* lines 241 and 250: the errors returned when fit or predict raises
EngineErrors == {"Error fitting Prophet model.", "Error generating forecast."}

\* C20: the step of a run that calls the engine writes no table; when the
\* engine raises, in fit or in predict, the run ends there and the response
\* is the error 500 with the engine's error, forecast_cache and
\* forecast_performance being as they were.
C20_EngineFailureLeavesTables ==
    [][\A p \in Threads :
          LET weekly == weekly_orders(cursor.rows)
              hist == complete_weeks(weekly, cutoff_date(proc[p].ref))
          IN (/\ proc[p].pc = "cf_fetch_orders"
              /\ run_error(cursor.has, cursor.rows, weekly, hist) = "") =>
                 /\ forecast_cache' = forecast_cache
                 /\ forecast_performance' = forecast_performance
                 /\ \/ proc'[p].pc = "cf_insert_perf"
                    \/ /\ proc'[p].pc = "done"
                       /\ proc'[p].resp.code = 500
                       /\ proc'[p].resp.status = "ERROR"
                       /\ proc'[p].resp.logged \in EngineErrors]_vars

\* a run of a tenant that has a cache row and a performance row ended with
\* the error of predict, the rows being those of the last successful run
C20_Witness ==
    \E p \in Threads :
        /\ proc[p].pc = "done" /\ proc[p].op \in {"updateForecast", "getForecastByDate"}
        /\ proc[p].resp.logged = "Error generating forecast."
        /\ proc[p].resp.code = 500
        /\ Len(cache_rows_of(proc[p].uid)) = 1
        /\ Len(perf_rows_of(proc[p].uid)) = 1
        /\ lastOk[proc[p].uid].set
        /\ cache_rows_of(proc[p].uid)[1].forecast_data = lastOk[proc[p].uid].json

\* the tenant's orders whose status changed on a day of the last full
\* Monday-to-Sunday week, at any time of that day
ChangedLastWeek(u) ==
    {i \in DOMAIN orders :
        /\ orders[i].user_id = u
        /\ orders[i].status_last_changed_at # NullInstant
        /\ week_start_date(now.day) - 7 <= orders[i].status_last_changed_at.day
        /\ orders[i].status_last_changed_at.day <= week_start_date(now.day) - 1}

\* C21: the interval job, having counted a tenant's status changes, enters a
\* forecast run for that tenant exactly when the orders of the tenant whose
\* status changed in the last full week number at least 5.
C21_RunIffThresholdReached ==
    [][(proc[JobInterval].pc = "count_fetch"
          /\ proc'[JobInterval].pc # "count_fetch") =>
          /\ proc'[JobInterval].pc \in {"cf_exec_orders", "job_next"}
          /\ proc'[JobInterval].uid = proc[JobInterval].uid
          /\ (proc'[JobInterval].pc = "cf_exec_orders")
               <=> (Cardinality(ChangedLastWeek(proc[JobInterval].uid))
                       >= ChangeThreshold)]_vars

\* C25: the count that count_status_changes_in_last_full_week reads for a
\* tenant is the number of the tenant's orders whose status changed between
\* Monday 00:00:00 and the end of Sunday of the last full week.
C25_CountsWholeLastWeek ==
    \A j \in Jobs :
        (proc[j].pc = "count_fetch" /\ cursor.has /\ cursor.rows # <<>>) =>
            cursor.rows[1].cnt = Cardinality(ChangedLastWeek(proc[j].uid))

\* C22: the Monday job starts on a Monday at 00:00:01, takes every user of
\* the users table, enters a forecast run for each of them without counting
\* status changes, and each run uses as its cutoff the Sunday of the day
\* before.
C22_MondayJobRunsEveryTenant ==
    [][LET r == proc[JobMonday]
           rn == proc'[JobMonday]
       IN /\ (r.pc = "job_fetch_users" /\ cursor.has /\ cursor.owner = JobMonday) =>
                 /\ rn.pc = "job_next"
                 /\ {rn.todo[k].user_id : k \in DOMAIN rn.todo} = UserIds
                 /\ Len(rn.todo) = NumUsers
          /\ (r.pc = "job_next" /\ r.todo # <<>>) =>
                 /\ rn.pc = "cf_exec_orders"
                 /\ rn.uid = Head(r.todo).user_id
                 /\ rn.todo = Tail(r.todo)
          /\ (r.pc = "job_next" /\ rn.pc = "done") => r.todo = <<>>
          /\ (r.pc \in RunPcs \cup {"cf_exec_orders"}) =>
                 /\ rn.pc \in RunPcs \cup {"cf_exec_orders", "job_next"}
                 /\ rn.todo = r.todo
          /\ (r.pc = "cf_fetch_orders" /\ rn.pc = "cf_insert_perf") =>
                 /\ rn.out.src.cutoff = now.day - 1
                 /\ weekday(rn.out.src.cutoff) = 6]_vars

\* the Monday job has ended, and the cache rows of both tenants, neither of
\* which has 5 status changes, were written by it with Sunday's cutoff
C22_Witness ==
    /\ proc[JobMonday].pc = "done" /\ proc[JobMonday].op = "job_monday"
    /\ \A u \in UserIds :
          /\ status_changes(orders, u, now.day) < ChangeThreshold
          /\ cache_rows_of(u) # <<>>
          /\ cache_rows_of(u)[1].src.ref = now
          /\ cache_rows_of(u)[1].src.cutoff = now.day - 1

\* the statements a job executes for one user of its list
TenantPcs == RunPcs \cup {"count_exec", "count_fetch", "cf_exec_orders"}

\* C23: no step a job takes for one tenant ends the job or changes the list
\* of tenants still to process, whether the tenant's run returns an error or
\* the engine or the database raises; the job then goes on with the next
\* tenant of the list.
C23_BatchSurvivesTenantFailure ==
    [][\A j \in Jobs :
          /\ proc[j].pc \in TenantPcs =>
                /\ proc'[j].pc \in TenantPcs \cup {"job_next"}
                /\ proc'[j].todo = proc[j].todo
          /\ (/\ proc[j].pc = "job_next" /\ proc[j].todo # <<>>
              /\ HasKey(Head(proc[j].todo), "user_id")
              /\ proc'[j] # proc[j]) =>
                /\ proc'[j].pc \in {"count_exec", "cf_exec_orders"}
                /\ proc'[j].uid = Head(proc[j].todo).user_id
                /\ proc'[j].todo = Tail(proc[j].todo)]_vars

\* the Monday job has ended: the run of tenant 1, first of the list, failed
\* in the engine and left no cache row, and the run of tenant 2 followed
C23_Witness ==
    /\ proc[JobMonday].pc = "done" /\ proc[JobMonday].op = "job_monday"
    /\ ~HasNoOrders(1)
    /\ cache_rows_of(1) = <<>> /\ ~lastOk[1].set
    /\ cache_rows_of(2) # <<>>
    /\ cache_rows_of(2)[1].src.ref = now

C26_PerfFailureKeepsCacheWrite ==
    [][\A p \in Threads :
          /\ (proc[p].pc = "cf_insert_perf"
                /\ forecast_performance' = forecast_performance) =>
                 proc'[p] = [proc[p] EXCEPT !.pc = "cf_select_cache"]
          /\ (/\ proc[p].pc = "cf_write_cache" /\ proc'[p].pc = "done"
              /\ perf_rows_of(proc[p].uid) = <<>>) =>
                 /\ cache_rows_of(proc[p].uid)' # <<>>
                 /\ cache_rows_of(proc[p].uid)'[1].forecast_data = proc[p].out.json
                 /\ proc'[p].resp.code = 200
                 /\ proc'[p].resp.data =
                       format_forecast_for_response(proc[p].out.output)]_vars

\* a run was answered 200 with its forecast and the tenant has the cache row
\* but no performance row
C26_Witness ==
    \E p \in Threads :
        /\ proc[p].pc = "done" /\ proc[p].op = "updateForecast"
        /\ proc[p].resp.code = 200 /\ proc[p].resp.data # <<>>
        /\ perf_rows_of(proc[p].uid) = <<>>
        /\ Len(cache_rows_of(proc[p].uid)) = 1
        /\ cache_rows_of(proc[p].uid)[1].forecast_data = lastOk[proc[p].uid].json

\* C27: a run whose metric computation failed goes on to store a performance
\* row, and that row has null r2, mae and mape.
C27_FailedMetricsStoredNull ==
    \A p \in Threads :
        (/\ proc[p].pc = "cf_select_cache"
         /\ proc[p].out.r2.null /\ proc[p].out.mae.null /\ proc[p].out.mape.null
         /\ perf_rows_of(proc[p].uid) # <<>>) =>
            LET rows == perf_rows_of(proc[p].uid)
                row == rows[Len(rows)]
            IN row.r2.null /\ row.mae.null /\ row.mape.null

\* the three estimates of every entry of a payload are 0 or more
NonNegative(entries) ==
    \A k \in DOMAIN entries :
        /\ entries[k].predicted_sales >= 0
        /\ entries[k].lower_bound >= 0
        /\ entries[k].upper_bound >= 0

\* C28: every payload stored in forecast_cache or forecast_performance and
\* every forecast list returned by a run has non-negative predicted, lower
\* and upper values, the engine returning negative estimates among others.
C28_EstimatesNonNegative ==
    /\ \A i \in DOMAIN forecast_cache :
           NonNegative(json_loads(forecast_cache[i].forecast_data))
    /\ \A i \in DOMAIN forecast_performance :
           NonNegative(json_loads(forecast_performance[i].forecast_data))
    /\ \A p \in Procs :
           /\ NonNegative(proc[p].out.output)
           /\ (proc[p].pc = "done"
                 /\ proc[p].op \in {"getForecast", "updateForecast", "getForecastByDate"})
                => NonNegative(proc[p].resp.data)

\* a run was answered with a forecast whose estimates are all 0, the engine
\* having returned a negative point estimate, and the same payload is stored
C28_Witness ==
    \E p \in Threads :
        /\ proc[p].pc = "done" /\ proc[p].op = "updateForecast"
        /\ proc[p].resp.code = 200 /\ proc[p].resp.data # <<>>
        /\ proc[p].resp.data[1].predicted_sales = 0
        /\ proc[p].resp.data[1].upper_bound = 0
        /\ cache_rows_of(proc[p].uid) # <<>>
        /\ json_loads(cache_rows_of(proc[p].uid)[1].forecast_data)[1].upper_bound = 0

\* C29: a getForecastChart of a tenant that has no forecast_performance row
\* is answered 404 with status ERROR and no chart data; its handler enters
\* no forecast run and writes no table.
C29_ChartWithoutRecordIs404 ==
    [][\A p \in Threads :
          (/\ proc[p].op = "getForecastChart"
           /\ proc[p].pc \in {"chart_exec", "chart_fetch"}
           /\ perf_rows_of(proc[p].uid) = <<>>) =>
              /\ proc'[p].pc \in {"chart_exec", "chart_fetch", "done"}
              /\ forecast_cache' = forecast_cache
              /\ forecast_performance' = forecast_performance
              /\ orders' = orders
              /\ proc'[p].pc = "done" =>
                    /\ proc'[p].resp.code = 404
                    /\ proc'[p].resp.status = "ERROR"
                    /\ proc'[p].resp.data = <<>>]_vars

\* the chart was asked for by a tenant that has orders but no performance
\* row, and the answer is the 404
C29_Witness ==
    \E p \in Threads :
        /\ proc[p].pc = "done" /\ proc[p].op = "getForecastChart"
        /\ proc[p].resp.code = 404
        /\ ~HasNoOrders(proc[p].uid)
        /\ perf_rows_of(proc[p].uid) = <<>>
        /\ cache_rows_of(proc[p].uid) = <<>>

\* ------------------------------------------------ insertOrders validation
\* insertOrders bodies of every kind validate_single_order tells apart: a
\* key missing, a date that does not parse, a date in the future, and dates
\* written with a UTC offset
InsertGood ==
    [id |-> MaxOrderId, order_status |-> "New",
     order_date |-> [ok |-> TRUE, day |-> 12, tod |-> 0, aware |-> FALSE]]
InsertRejected ==
    {[order_status |-> "New", order_date |-> InsertGood.order_date],
     [id |-> MaxOrderId, order_date |-> InsertGood.order_date],
     [id |-> MaxOrderId, order_status |-> "New"],
     [InsertGood EXCEPT !.order_date.ok = FALSE],
     [InsertGood EXCEPT !.order_date.day = StartDay + 2],
     [InsertGood EXCEPT !.order_date.day = StartDay + 2, !.order_date.aware = TRUE]}
InsertInputs ==
    {InsertGood, [InsertGood EXCEPT !.order_date.aware = TRUE]} \cup InsertRejected
InsertLists ==
    {<<InsertGood, o>> : o \in InsertInputs} \cup {<<o, InsertGood>> : o \in InsertInputs}
InsertRequests ==
    {[op |-> "insertOrders", cred |-> c, arg |-> [NoArg EXCEPT !.list = <<o>>]] :
        c \in ValidCreds, o \in InsertInputs}
    \cup {[op |-> "insertOrders", cred |-> c,
           arg |-> [NoArg EXCEPT !.bulk = TRUE, !.list = l]] :
              c \in ValidCreds, l \in InsertLists}

StartInsert(p) == Quiet /\ StartFrom(p, InsertRequests)

StepInsert(p) ==
    \/ AuthCheck(p) \/ ValidateFetch(p) \/ AuthUidExec(p) \/ AuthUidFetch(p)
    \/ InsertExec(p) \/ InsertRowcount(p)

NextInsert == \E p \in Threads : StartInsert(p) \/ StepInsert(p)

SpecInsert == Init /\ [][NextInsert]_vars

\* an order insertOrders must reject: a required key is missing, the date
\* does not parse, or the date is after the clock
Rejected(order, clock) ==
    \/ ~HasKey(order, "id") \/ ~HasKey(order, "order_date")
    \/ ~HasKey(order, "order_status")
    \/ ~order.order_date.ok
    \/ Later(order.order_date, clock)

\* C31: an insertOrders request that carries an order lacking id, order_date
\* or order_status, or whose date does not parse or is in the future, stores
\* none of its orders and is answered with a 4xx status.
C31_RejectedOrderIs4xxNothingStored ==
    [][\A p \in Threads :
          (/\ proc[p].op = "insertOrders" /\ proc[p].pc = "insert_exec"
           /\ \E i \in DOMAIN proc[p].arg.list : Rejected(proc[p].arg.list[i], now)
           /\ proc'[p] # proc[p]) =>
              /\ orders' = orders
              /\ proc'[p].pc = "done"
              /\ proc'[p].resp.code \in 400..499]_vars

\* C32: a stored order keeps its order_id, user_id and order_date and is
\* never removed; a step that changes its order_status, old_status or
\* status_last_changed_at is the UPDATE of an updateOrderStatus request for
\* that order which passed the guard: made by the owner, with a status other
\* than the stored one, on an order whose week has ended.
C32_OnlyStatusFieldsChange ==
    [][\A i \in DOMAIN orders :
          /\ i \in DOMAIN orders'
          /\ orders'[i].order_id = orders[i].order_id
          /\ orders'[i].user_id = orders[i].user_id
          /\ orders'[i].order_date = orders[i].order_date
          /\ orders'[i] # orders[i] =>
                \E p \in Threads :
                    /\ proc[p].op = "updateOrderStatus" /\ proc[p].pc = "uos_update"
                    /\ proc'[p].pc = "done" /\ proc'[p].resp.code = 200
                    /\ proc[p].arg.order_id = i
                    /\ proc[p].uid = orders[i].user_id
                    /\ proc[p].arg.order_status # orders[i].order_status
                    /\ week_complete(orders[i].order_date, now.day)]_vars

\* an accepted update has changed the status fields of an order, and an
\* insertOrders has since been answered for the same order_id
C32_Witness ==
    \E p \in Threads, i \in DOMAIN orders :
        /\ orders[i].status_last_changed_at # NullInstant
        /\ orders[i].old_status # None
        /\ proc[p].pc = "done" /\ proc[p].op = "insertOrders"
        /\ proc[p].resp.code = 200
        /\ \E k \in DOMAIN proc[p].arg.list : proc[p].arg.list[k].id = i

\* C33: every step of a forecast run of a tenant leaves the orders table as
\* it is, leaves the forecast_cache and forecast_performance rows of every
\* other tenant as they are, and the rows its statements return are rows of
\* that tenant.
C33_RunTouchesOnlyItsTenant ==
    [][\A p \in Procs :
          (/\ proc[p].pc \in RunPcs \cup {"cf_exec_orders"}
           /\ proc'[p] # proc[p]) =>
              /\ orders' = orders
              /\ \A v \in UserIds \ {proc[p].uid} :
                    /\ SelectSeq(forecast_cache', LAMBDA row : row.user_id = v)
                          = cache_rows_of(v)
                    /\ SelectSeq(forecast_performance', LAMBDA row : row.user_id = v)
                          = perf_rows_of(v)
              /\ cursor' # cursor =>
                    \A k \in 1..Len(cursor'.rows) :
                        cursor'.rows[k].user_id = proc[p].uid]_vars

\* a run of one tenant has fetched its orders while another tenant has
\* orders, a cache row and a performance row
C33_Witness ==
    \E p \in Procs, v \in UserIds :
        /\ proc[p].pc = "cf_write_cache" /\ proc[p].uid # v
        /\ proc[p].out.src.hist # <<>>
        /\ ~HasNoOrders(v) /\ ~HasNoOrders(proc[p].uid)
        /\ cache_rows_of(v) # <<>> /\ perf_rows_of(v) # <<>>
        /\ perf_rows_of(proc[p].uid) # <<>>

\* C34: the cutoff of a reference instant is a Sunday not later than the
\* instant's date: the latest Sunday strictly before the date when the date
\* is not a Sunday, the date itself on a Sunday from 00:00:01 on, and the
\* date minus 7 days on a Sunday before 00:00:01.
C34_CutoffByCases ==
    (fx.f = "cutoff" /\ fx.done) =>
        LET d == fx.in.day
            c == fx.out
        IN /\ weekday(c) = 6 /\ c <= d
           /\ weekday(d) # 6 =>
                 /\ c < d
                 /\ \A e \in (c + 1)..(d - 1) : weekday(e) # 6
           /\ (weekday(d) = 6 /\ fx.in.tod >= 1) => c = d
           /\ (weekday(d) = 6 /\ fx.in.tod < 1) => c = d - 7

\* the cutoff of a Wednesday at midnight is the Sunday three days before,
\* and the cutoff of a Saturday's last second is the Sunday six days before
C34_Witness ==
    /\ fx.f = "cutoff" /\ fx.done
    /\ \/ weekday(fx.in.day) = 2 /\ fx.in.tod = 0 /\ fx.out = fx.in.day - 3
       \/ weekday(fx.in.day) = 5 /\ fx.in.tod = 86399 /\ fx.out = fx.in.day - 6

\* C35: a recompute that is answered with an error leaves forecast_cache as
\* it was: no step of a run before its cache write changes the table, the
\* step that ends a run with an error response changes no row, and no cache
\* row ever holds an empty payload.
C35_FailedRunLeavesCache ==
    [][/\ \A p \in Threads :
            (/\ proc[p].op \in {"getForecast", "updateForecast", "getForecastByDate"}
             /\ proc[p].pc \in RunPcs \cup {"cf_exec_orders"}
             /\ proc'[p] # proc[p]) =>
                /\ proc[p].pc # "cf_write_cache" => forecast_cache' = forecast_cache
                /\ (proc'[p].pc = "done" /\ proc'[p].resp.code >= 400) =>
                      forecast_cache' = forecast_cache
       /\ \A i \in DOMAIN forecast_cache' :
            json_loads(forecast_cache'[i].forecast_data) # <<>>]_vars

\* the owner asks for the status the order already has
SameStatusUpdate(p) ==
    /\ proc[p].op = "updateOrderStatus" /\ ~Free(p)
    /\ proc[p].arg.order_id \in DOMAIN orders
    /\ orders[proc[p].arg.order_id].user_id \in Account(p)
    /\ orders[proc[p].arg.order_id].order_status = proc[p].arg.order_status

\* C36: no step of such a request writes the orders table, so the order's
\* old_status and status_last_changed_at keep their values and the count of
\* last week's status changes is the same on every day; the request ends
\* with HTTP 200, status OK, "unchanged", whether the order's week has ended
\* or not.
C36_SameStatusIsNoOp ==
    [][\A p \in Threads :
          SameStatusUpdate(p) =>
              /\ orders' = orders
              /\ \A u \in UserIds, d \in 0..(MaxDay + 14) :
                    status_changes(orders', u, d) = status_changes(orders, u, d)
              /\ proc'[p].pc = "done" =>
                    /\ proc'[p].resp.code = 200
                    /\ proc'[p].resp.status = "OK"
                    /\ proc'[p].resp.msg = "unchanged"]_vars

\* the unchanged answer was given for an order whose week has not ended
C36_Witness ==
    \E p \in Threads :
        /\ proc[p].pc = "done" /\ proc[p].op = "updateOrderStatus"
        /\ proc[p].resp.code = 200 /\ proc[p].resp.msg = "unchanged"
        /\ proc[p].arg.order_id \in DOMAIN orders
        /\ orders[proc[p].arg.order_id].order_status = proc[p].arg.order_status
        /\ week_end_date(orders[proc[p].arg.order_id].order_date) > now.day

C38_AsOfRunCachedAndServed ==
    [][\A p \in Threads :
          LET t == [day |-> proc[p].arg.ref.day, tod |-> proc[p].arg.ref.tod]
          IN /\ (/\ proc[p].op = "getForecastByDate"
                 /\ proc[p].pc = "cf_fetch_orders"
                 /\ proc'[p].pc = "cf_insert_perf") =>
                    /\ proc'[p].out.src.ref = t
                    /\ proc'[p].out.src.cutoff = cutoff_date(t)
                    /\ \A k \in DOMAIN proc'[p].out.src.hist :
                          proc'[p].out.src.hist[k].ds <= cutoff_date(t)
                    /\ \A k \in DOMAIN proc'[p].out.output :
                          parse_Bdy(proc'[p].out.output[k].week_end) > cutoff_date(t)
             /\ (/\ proc[p].op = "getForecastByDate"
                 /\ proc[p].pc = "cf_write_cache"
                 /\ proc'[p].pc = "done" /\ proc'[p].resp.code = 200) =>
                    /\ Len(cache_rows_of(proc[p].uid)') = 1
                    /\ cache_rows_of(proc[p].uid)'[1].forecast_data = proc[p].out.json
                    /\ cache_rows_of(proc[p].uid)'[1].src.ref = t
             /\ (/\ proc[p].op = "getForecast" /\ proc[p].pc = "gf_fetch"
                 /\ proc'[p].pc = "done"
                 /\ cache_rows_of(proc[p].uid) # <<>>) =>
                    /\ proc'[p].resp.code = 200
                    /\ proc'[p].resp.data = format_forecast_for_response(
                           json_loads(cache_rows_of(proc[p].uid)[1].forecast_data))]_vars

\* a getForecast was answered from a cache row whose run was as of an
\* instant before the clock and whose cutoff is not the clock's cutoff
C38_Witness ==
    \E p \in Threads :
        /\ proc[p].pc = "done" /\ proc[p].op = "getForecast"
        /\ proc[p].resp.code = 200 /\ proc[p].resp.msg = "cached"
        /\ cache_rows_of(proc[p].uid) # <<>>
        /\ Later(now, cache_rows_of(proc[p].uid)[1].src.ref)
        /\ cache_rows_of(proc[p].uid)[1].src.cutoff # cutoff_date(now)
        /\ proc[p].resp.data = format_forecast_for_response(
               json_loads(cache_rows_of(proc[p].uid)[1].forecast_data))

\* C39: for every order date, the week end date of the week check of
\* updateOrderStatus (Monday of the date's week plus 6 days) is the label of
\* the weekly bucket in which the aggregation counts an order of that date.
C39_GuardWeekIsBucketWeek ==
    (fx.f = "week" /\ fx.done) =>
        /\ fx.out.guard = fx.out.bucket
        /\ weekday(fx.out.guard) = 6
        /\ fx.in <= fx.out.guard /\ fx.out.guard <= fx.in + 6

\* both were computed for a Monday, six days before the end of its week, and
\* they agree
C39_Witness ==
    /\ fx.f = "week" /\ fx.done
    /\ weekday(fx.in) = 0
    /\ fx.out.guard = fx.in + 6 /\ fx.out.bucket = fx.in + 6

\* C30: a request whose credentials are missing or match no account never
\* leaves require_auth: each of its steps is a step of the credential check,
\* the only rows it reads are rows of users, it changes no order, cache or
\* performance row, and its answer is 403.
C30_BadCredentialsAnswered403 ==
    [][\A p \in Threads :
          (proc'[p].cred \in BadCreds /\ proc'[p].pc # "idle") =>
              /\ proc'[p].pc \in {"require_auth", "validate_fetch", "done"}
              /\ proc'[p].pc = "done" => proc'[p].resp.code = 403
              /\ proc'[p] # proc[p] =>
                    /\ orders' = orders
                    /\ forecast_cache' = forecast_cache
                    /\ forecast_performance' = forecast_performance
                    /\ cursor' # cursor =>
                          \A k \in 1..Len(cursor'.rows) :
                              \E i \in UserIds : cursor'.rows[k] = users[i]]_vars

\* a known username with a wrong password was checked against the account's
\* row and refused while the tenant's orders were in the table
C30_Witness ==
    \E p \in Threads :
        /\ proc[p].pc = "done" /\ proc[p].resp.code = 403
        /\ proc[p].cred.present
        /\ proc[p].cred.username = username_of(1)
        /\ ~check_password_hash(users[1].password_hash, proc[p].cred.password)
        /\ proc[p].op = "updateForecast"
        /\ ~HasNoOrders(1)

====
